---- MODULE Spec2Model ----
(***************************************************************************)
(* Navigation, visibility and camera-target state machine of main.js.      *)
(*                                                                         *)
(* State is the `state` bundle of main.js plus the module-level            *)
(* raycastTargets / mesh visibility, the terminal overlay and the pending  *)
(* timed effects (setTimeout callbacks and animateEnter frame loops).      *)
(* Time is counted in milliseconds and advances from one deadline to the   *)
(* next; a timed effect fires when its remaining time has reached 0.       *)
(***************************************************************************)
EXTENDS Integers, Sequences, FiniteSets, TLC

NULL == "null"

\* ------------------------------------------------------------------------
\* Bounds of the model
\* ------------------------------------------------------------------------
MaxEnterAnims == 2     \* animateEnter loops in flight at once
MaxBackTimers == 1     \* pending 'back' trap timeouts
MaxLockouts == 1       \* pending 'lockout' trap timeouts
MaxLayoutFolders == 3  \* folders of a layout input
MaxLayoutDepth == 1    \* deepest level of a layout input
LayoutNodeCounts == {0, 1, 2, 5}   \* folder.nodes.length of a layout input
MaxGridFolders == 2    \* folders of a node placement input
GridNodeCounts == 0..4 \* folder.nodes.length of a node placement input
WheelDeltas == {-100, 20, 100}   \* event.deltaY values of a wheel event
MaxFrames == 3         \* frames whose blend is resolved exactly
BlendDen == 4          \* the blend factor of a frame is counted in BlendDen-ths
MaxLookDrags == 1      \* right drags whose mouseup has not arrived yet
PointerPoints == {<<0, 0>>, <<100, 400>>, <<400, 100>>}   \* event.clientX, event.clientY

\* ------------------------------------------------------------------------
\* Program constants
\* ------------------------------------------------------------------------
EnterDuration == 900       \* CONFIG.animation.enterDuration
DoubleClickMs == 300       \* onClick: now - lastClickTime < 300
BackTrapDelay == 500       \* triggerTrap 'back' setTimeout
LockoutDelay == 2000       \* triggerTrap 'lockout' setTimeout
NodeW == 5                 \* CONFIG.node.size.w
NodeD == 5                 \* CONFIG.node.size.d
NodeSpacing == 2           \* CONFIG.node.spacing
EdgeGap == 55              \* calculateFolderPositions: edgeGap
ScalePct == 92             \* Math.pow(0.92, folder.depth), in hundredths
DepthStep == 45            \* CONFIG.depth.step
StartZ == 0                \* CONFIG.depth.startZ
PlatformHeight10 == 12     \* CONFIG.platform.height, in tenths
YawLimit == 250            \* clamp(.., -0.5, 0.5), in units of 0.002 rad (one pixel)
PitchLimit == 150          \* clamp(.., -0.3, 0.3), in units of 0.002 rad
ROOT == "root_usr"         \* state.currentFolderId initial value
PUZZLE == "root_auth"      \* getPuzzleId

\* camera-config.js holds two definitions of CAMERA_CONFIG; cfg selects one.
CAMERA_CONFIG(c) ==
  IF c = 1
  THEN [folder |-> [minDistance |-> 25, maxDistance |-> 20, initialDistance |-> 70,
                    minHeight |-> 10, maxHeight |-> 18, initialHeight |-> 18],
        node |-> [minDistance |-> 8, maxDistance |-> 25, selectDistance |-> 8,
                  minHeight |-> 6, maxHeight |-> 16],
        deselectThreshold |-> 55,
        smoothFactor |-> 4,
        zoomSpeedPct |-> 15]
  ELSE [folder |-> [minDistance |-> 25, maxDistance |-> 70, initialDistance |-> 70,
                    minHeight |-> 10, maxHeight |-> 18, initialHeight |-> 18],
        node |-> [minDistance |-> 8, maxDistance |-> 80, selectDistance |-> 8,
                  minHeight |-> 6, maxHeight |-> 16],
        deselectThreshold |-> 55,
        smoothFactor |-> 4,
        zoomSpeedPct |-> 15]

\* ------------------------------------------------------------------------
\* Graph store (folders.json): folders in Object.values order
\* ------------------------------------------------------------------------
Node(id, type, enterable, next, trap) ==
  [id |-> id, type |-> type, enterable |-> enterable,
   nextFolderId |-> next, trapEffect |-> trap]

Folder(id, depth, nodes) == [id |-> id, depth |-> depth, nodes |-> nodes]

\* Branching graph: two siblings that reconverge, a cycle back to the root,
\* and a folder without nodes that no edge leads to.
BranchGraph ==
  << Folder("root_usr", 0,
       << Node("r_a", "plain", TRUE, "a", NULL),
          Node("r_b", "plain", TRUE, "b", NULL) >>),
     Folder("a", 1, << Node("a_c", "plain", TRUE, "c", NULL) >>),
     Folder("b", 1, << Node("b_c", "plain", TRUE, "c", NULL) >>),
     Folder("c", 2, << Node("c_root", "plain", TRUE, "root_usr", NULL) >>),
     Folder("lost", 3, << >>) >>

\* Hazard graph: the 'back' trap next to the win node.
TrapGraph ==
  << Folder("root_usr", 0, << Node("r_a", "plain", TRUE, "a", NULL) >>),
     Folder("a", 1,
       << Node("a_back", "trap", FALSE, NULL, "back"),
          Node("a_win", "plain", TRUE, NULL, NULL) >>) >>

\* Lockout graph: the 'lockout' trap next to the 'back' trap.
LockGraph ==
  << Folder("root_usr", 0, << Node("r_a", "plain", TRUE, "a", NULL) >>),
     Folder("a", 1,
       << Node("a_back", "trap", FALSE, NULL, "back"),
          Node("a_lock", "trap", FALSE, NULL, "lockout") >>) >>

\* Terminal graph: a terminal node in each of two folders.
VaultGraph ==
  << Folder("root_usr", 0,
       << Node("r_term", "terminal", TRUE, "v", NULL),
          Node("r_lore", "lore", FALSE, NULL, NULL) >>),
     Folder("v", 1, << Node("v_term", "terminal", TRUE, "root_usr", NULL) >>) >>

\* Dangling graph: an enterable node whose nextFolderId names no folder.
DangleGraph ==
  << Folder("root_usr", 0,
       << Node("r_gone", "plain", TRUE, "gone", NULL),
          Node("r_a", "plain", TRUE, "a", NULL) >>),
     Folder("a", 1, << Node("a_back", "trap", FALSE, NULL, "back") >>) >>

\* Fork graph: two sibling folders below the root.
ForkGraph ==
  << Folder("root_usr", 0,
       << Node("r_a", "plain", TRUE, "a", NULL),
          Node("r_b", "plain", TRUE, "b", NULL) >>),
     Folder("a", 1, << Node("a_lore", "lore", FALSE, NULL, NULL) >>),
     Folder("b", 1, << Node("b_root", "plain", TRUE, "root_usr", NULL) >>) >>

\* Hazard graph: an enterable trap node, and the nodes whose double-click
\* does not navigate.
HazardGraph ==
  << Folder("root_usr", 0,
       << Node("r_bait", "trap", TRUE, "a", "scramble"),
          Node("r_herring", "redHerring", FALSE, NULL, NULL),
          Node("r_clue", "clue", FALSE, NULL, NULL) >>),
     Folder("a", 1,
       << Node("a_back", "trap", FALSE, NULL, "back"),
          Node("a_scramble", "trap", FALSE, NULL, "scramble"),
          Node("a_plain", "plain", FALSE, NULL, NULL),
          Node("a_lore", "lore", FALSE, NULL, NULL) >>) >>

\* Back graph: 'back' traps at depth 0 and 1; the first folder of depth 0
\* in graph order is one that no edge leads to.
BackGraph ==
  << Folder("attic", 0, << Node("t_lore", "lore", FALSE, NULL, NULL) >>),
     Folder("root_usr", 0,
       << Node("r_a", "plain", TRUE, "a", NULL),
          Node("r_back", "trap", FALSE, NULL, "back") >>),
     Folder("a", 1, << Node("a_back", "trap", FALSE, NULL, "back") >>) >>

\* Knot graph: a self-loop, a cycle between two siblings, folders with
\* several incoming edges and two nodes that name the same missing folder.
KnotGraph ==
  << Folder("root_usr", 0,
       << Node("r_a", "plain", TRUE, "a", NULL),
          Node("r_b", "plain", TRUE, "b", NULL),
          Node("r_self", "plain", TRUE, "root_usr", NULL) >>),
     Folder("a", 1,
       << Node("a_b", "plain", TRUE, "b", NULL),
          Node("a_gone", "plain", TRUE, "gone", NULL) >>),
     Folder("b", 1,
       << Node("b_a", "plain", TRUE, "a", NULL),
          Node("b_gone", "plain", TRUE, "gone", NULL),
          Node("b_c", "plain", TRUE, "c", NULL) >>),
     Folder("c", 2, << Node("c_root", "plain", TRUE, "root_usr", NULL) >>) >>

Graphs == [branch |-> BranchGraph, trap |-> TrapGraph, lock |-> LockGraph,
           vault |-> VaultGraph, dangle |-> DangleGraph, fork |-> ForkGraph,
           hazard |-> HazardGraph, back |-> BackGraph, knot |-> KnotGraph]

\* The loaded graph with the CAMERA_CONFIG definition in force
Scenarios == {<<"branch", 1>>, <<"trap", 1>>, <<"vault", 2>>}
LockScenarios == {<<"lock", 1>>}
DangleScenarios == {<<"dangle", 1>>}
LayoutScenarios == {<<"layout", 1>>}
SmoothScenarios == {<<"fork", 2>>}
HazardScenarios == {<<"hazard", 1>>}
BackScenarios == {<<"back", 1>>}
SearchScenarios == {<<"knot", 1>>, <<"branch", 1>>}
GridScenarios == {<<"grid", 1>>}

\* Layout inputs: up to MaxLayoutFolders folders, each at a depth of
\* 0..MaxLayoutDepth with a number of nodes of LayoutNodeCounts
LayoutFolderShapes == (0..MaxLayoutDepth) \X LayoutNodeCounts
LayoutShapes == UNION {[1..n -> LayoutFolderShapes] : n \in 1..MaxLayoutFolders}

\* Node placement inputs: up to MaxGridFolders folders
GridShapes ==
  UNION {[1..n -> (0..MaxLayoutDepth) \X GridNodeCounts] : n \in 1..MaxGridFolders}

VARIABLES
  g,                     \* which graph of Graphs is loaded (FOLDER_GRAPH)
  cfg,                   \* which CAMERA_CONFIG definition is in force
  shape,                 \* folders of the "layout" graph: <<depth, number of nodes>> each
  platformMeshes,        \* folder id -> platform.userData, built by init()
  shuffleDraws,          \* per folder, the indices j that shuffleArray draws
  nodePositions,         \* folder id -> the meshes createNodes placed, in order
  booted,                \* init() has run
  currentFolderId, selectedNodeId, isTransitioning, isWon,
  navigationHistory, puzzlesSolved,
  currentPuzzleId, currentTerminalNextFolder, terminal,
  cameraMode, targetLookAt, targetDistance, targetHeight,
  isInitialLoad, lastFolderDistance,
  currentLookAt,         \* <<doubled x in layout units, y in tenths, z>> * SmoothUnit
  currentDistance, currentHeight,   \* in 1/SmoothUnit
  cameraYaw, cameraPitch,           \* in 0.002 rad / SmoothUnit
  isLooking,
  lookDrags,             \* closures of the right drags in progress, oldest first
  foldersToShow, meshVisible, raycastTargets, breadcrumbLen,
  sinceClick,            \* min(now - lastClickTime, DoubleClickMs)
  enterAnims, backTimers, lockoutTimers,
  lastClickHit,          \* observer: what the previous click did (see LoggedClick)
  searchPhase,           \* showCurrentFolder run step by step: "idle", "loop", "done"
  queue, visited,        \* locals of the search of showCurrentFolder
  searchShow,            \* the local foldersToShow while the search runs
  dequeuedId, nodeIndex   \* the folder taken off the queue, the forEach position

navVars == <<currentFolderId, selectedNodeId, isTransitioning, isWon,
             navigationHistory>>
puzzleVars == <<puzzlesSolved, currentPuzzleId, currentTerminalNextFolder, terminal>>
camVars == <<cameraMode, targetLookAt, targetDistance, targetHeight,
             isInitialLoad, lastFolderDistance>>
smoothVars == <<currentLookAt, currentDistance, currentHeight>>
lookVars == <<cameraYaw, cameraPitch, isLooking, lookDrags>>
viewVars == <<foldersToShow, meshVisible, raycastTargets, breadcrumbLen>>
timerVars == <<enterAnims, backTimers, lockoutTimers>>
gridVars == <<shuffleDraws, nodePositions>>
searchVars == <<searchPhase, queue, visited, searchShow, dequeuedId, nodeIndex>>
vars == <<g, cfg, shape, platformMeshes, gridVars, booted, navVars, puzzleVars, camVars, smoothVars,
          lookVars, viewVars, sinceClick, timerVars, searchVars, gridVars,
          lastClickHit>>

\* ------------------------------------------------------------------------
\* Graph access
\* ------------------------------------------------------------------------
\* a graph of unconnected folders with the depths and node counts of shape
LayoutGraph ==
  [i \in 1..Len(shape) |->
     LET id == IF i = 1 THEN ROOT ELSE "f" \o ToString(i)
     IN Folder(id, shape[i][1],
               [k \in 1..shape[i][2] |->
                  Node(id \o "_n" \o ToString(k), "plain", FALSE, NULL, NULL)])]

FOLDER_GRAPH == IF g \in {"layout", "grid"} THEN LayoutGraph ELSE Graphs[g]

FolderIds == {FOLDER_GRAPH[i].id : i \in 1..Len(FOLDER_GRAPH)}

\* FOLDER_GRAPH[id]
FolderOf(id) == FOLDER_GRAPH[CHOOSE i \in 1..Len(FOLDER_GRAPH) : FOLDER_GRAPH[i].id = id]

\* nodeMeshes: nodeId -> { mesh.userData.folderId, mesh.userData.nodeData }
nodeMeshes ==
  UNION {{[nodeId |-> FOLDER_GRAPH[i].nodes[k].id, folderId |-> FOLDER_GRAPH[i].id,
           nodeData |-> FOLDER_GRAPH[i].nodes[k]] :
             k \in 1..Len(FOLDER_GRAPH[i].nodes)} : i \in 1..Len(FOLDER_GRAPH)}

NodeIds == {m.nodeId : m \in nodeMeshes}
MeshOf(n) == CHOOSE m \in nodeMeshes : m.nodeId = n

SeqToSet(s) == {s[i] : i \in 1..Len(s)}
Min(a, b) == IF a < b THEN a ELSE b
Max(a, b) == IF a > b THEN a ELSE b

NodesOfFolder(f) == {m.nodeId : m \in {x \in nodeMeshes : x.folderId = f}}

\* ------------------------------------------------------------------------
\* Layout: calculateFolderPositions and createPlatform
\* ------------------------------------------------------------------------
\* Lengths are exact multiples of 1/LayoutUnit; x positions are kept doubled,
\* so that halving a width needs no rounding.
RECURSIVE Pow(_, _)
Pow(b, e) == IF e = 0 THEN 1 ELSE b * Pow(b, e - 1)

DeepestLevel == Max(0, CHOOSE d \in {FOLDER_GRAPH[i].depth : i \in 1..Len(FOLDER_GRAPH)} :
                         \A i \in 1..Len(FOLDER_GRAPH) : FOLDER_GRAPH[i].depth <= d)

LayoutUnit == Pow(100, DeepestLevel)

\* Math.pow(0.92, depth), in units of 1/LayoutUnit
Scale(depth) == Pow(ScalePct, depth) * Pow(100, DeepestLevel - depth)

\* a number, or the NaN of a 0/0 division
Num(v) == [nan |-> FALSE, v |-> v]
NaN == [nan |-> TRUE, v |-> 0]

\* Math.ceil(Math.sqrt(n))
CeilSqrt(n) == CHOOSE c \in 0..n : c * c >= n /\ \A d \in 0..(c - 1) : d * d < n

\* Math.ceil(a / b) for a >= 0, b >= 0; b = 0 arises only with a = 0
CeilDiv(a, b) == IF b = 0 THEN NaN ELSE Num((a + b - 1) \div b)

\* calculateFolderPositions, first pass: folderWidths[folder.id]
FolderWidth(folder) ==
  LET numNodes == Len(folder.nodes)
      cols == CeilSqrt(numNodes)
      gap == NodeSpacing
      padding == gap * 2
      gridWidth == cols * NodeW + (cols - 1) * gap
      width == gridWidth + padding * 2
  IN width * Scale(folder.depth)

\* depthFolders[depth]: the folders of a depth, in graph order
DepthFolders(depth) == SelectSeq(FOLDER_GRAPH, LAMBDA f : f.depth = depth)

\* totalWidth of the folders of a depth, gaps included
RECURSIVE TotalWidth(_, _)
TotalWidth(folders, index) ==
  IF index > Len(folders) THEN 0
  ELSE FolderWidth(folders[index])
       + (IF index < Len(folders) THEN EdgeGap * LayoutUnit ELSE 0)
       + TotalWidth(folders, index + 1)

\* variant: the edge gap is left out when stepping to the next folder
RECURSIVE PlaceFolders_NoGap(_, _, _, _)
PlaceFolders_NoGap(folders, index, currentX2, positions) ==
  IF index > Len(folders) THEN positions
  ELSE LET width == FolderWidth(folders[index])
       IN PlaceFolders_NoGap(folders, index + 1, currentX2 + 2 * width,
                             (folders[index].id :> currentX2 + width) @@ positions)

\* the positioning loop over the folders of a depth; positions are doubled
RECURSIVE PlaceFolders(_, _, _, _)
PlaceFolders(folders, index, currentX2, positions) ==
  IF index > Len(folders) THEN positions
  ELSE LET width == FolderWidth(folders[index])
       IN PlaceFolders(folders, index + 1,
                       currentX2 + 2 * (width + EdgeGap * LayoutUnit),
                       (folders[index].id :> currentX2 + width) @@ positions)

\* variant: the first folder of a depth starts at x = 0
calculateFolderPositions_FromZero ==
  [id \in FolderIds |->
     LET folders == DepthFolders(FolderOf(id).depth)
     IN PlaceFolders(folders, 1, 0, [x \in {} |-> 0])[id]]

\* calculateFolderPositions(): folder id -> doubled x position
calculateFolderPositions ==
  [id \in FolderIds |->
     LET folders == DepthFolders(FolderOf(id).depth)
     IN PlaceFolders(folders, 1, 0 - TotalWidth(folders, 1), [x \in {} |-> 0])[id]]

\* createPlatform(folder): the userData of the platform
createPlatform(folder) ==
  LET numNodes == Len(folder.nodes)
      cols == CeilSqrt(numNodes)
      rows == CeilDiv(numNodes, cols)
      gap == NodeSpacing
      padding == gap * 2
      gridWidth == cols * NodeW + (cols - 1) * gap
      width == gridWidth + padding * 2
  IN [cols |-> cols,
      rows |-> rows,
      width |-> width * Scale(folder.depth),
      depth |-> IF rows.nan THEN NaN
                ELSE Num((rows.v * NodeD + (rows.v - 1) * gap + padding * 2)
                         * Scale(folder.depth)),
      branchOffset2 |-> calculateFolderPositions[folder.id]]

\* buildAllPlatforms(): platformMeshes
buildAllPlatforms == [id \in FolderIds |-> createPlatform(FolderOf(id))]

\* ------------------------------------------------------------------------
\* Node placement: shuffleArray and createNodes
\* ------------------------------------------------------------------------
\* the values of Math.floor(Math.random() * (i + 1)) for i = n - 1 down to 1
ShuffleDrawSeqs(n) ==
  {js \in [1..(n - 1) -> 0..(n - 1)] : \A k \in 1..(n - 1) : js[k] <= n - k}

\* every outcome of the draws of buildAllPlatforms, folder by folder
GridDraws ==
  {d \in [1..Len(FOLDER_GRAPH) -> UNION {ShuffleDrawSeqs(n) : n \in GridNodeCounts}] :
     \A i \in 1..Len(FOLDER_GRAPH) : d[i] \in ShuffleDrawSeqs(Len(FOLDER_GRAPH[i].nodes))}

\* the draws j = i, which leave the order as it is
NoSwapDraws(n) == [k \in 1..(n - 1) |-> n - k]

\* variant: array[i] = array[j] without the exchange
RECURSIVE shuffleArray_Overwrites(_, _, _)
shuffleArray_Overwrites(array, i, js) ==
  IF i <= 0 THEN array
  ELSE shuffleArray_Overwrites([array EXCEPT ![i + 1] = array[Head(js) + 1]],
                               i - 1, Tail(js))

\* shuffleArray(array): the loop from index i down to 1, with the draws js
RECURSIVE shuffleArray(_, _, _)
shuffleArray(array, i, js) ==
  IF i <= 0 THEN array
  ELSE LET j == Head(js)
       IN shuffleArray([array EXCEPT ![i + 1] = array[j + 1], ![j + 1] = array[i + 1]],
                       i - 1, Tail(js))

\* createNodes(folder): the meshes in the order of nodes.forEach; x and z
\* are doubled and in units of 1/LayoutUnit
createNodes(folder, js) ==
  LET userData == createPlatform(folder)
      cols == userData.cols
      rows == userData.rows.v
      scale == Scale(folder.depth)
      zPos == StartZ - folder.depth * DepthStep
      nodes == shuffleArray(folder.nodes, Len(folder.nodes) - 1, js)
      nodeWidth == NodeW * scale
      nodeDepth == NodeD * scale
      actualGap == NodeSpacing * scale
      gridWidth == cols * nodeWidth + (cols - 1) * actualGap
      gridDepth == rows * nodeDepth + (rows - 1) * actualGap
      startX2 == nodeWidth - gridWidth
      startZLocal2 == nodeDepth - gridDepth
      spacingX == nodeWidth + actualGap
      spacingZ == nodeDepth + actualGap
  IN [k \in 1..Len(nodes) |->
        LET index == k - 1
            col == index % cols
            row == index \div cols
        IN [nodeId |-> nodes[k].id, col |-> col, row |-> row,
            x2 |-> userData.branchOffset2 + startX2 + 2 * col * spacingX,
            z2 |-> 2 * zPos * LayoutUnit + startZLocal2 + 2 * row * spacingZ]]

\* buildAllPlatforms(): the createNodes call of every folder
createAllNodes(draws) ==
  [id \in FolderIds |->
     LET i == CHOOSE i \in 1..Len(FOLDER_GRAPH) : FOLDER_GRAPH[i].id = id
     IN createNodes(FOLDER_GRAPH[i], draws[i])]

\* ------------------------------------------------------------------------
\* Camera smoothing (updateCameraSmooth)
\* ------------------------------------------------------------------------
\* Smoothed quantities are held in 1/SmoothUnit so that MaxFrames blends by
\* a factor counted in BlendDen-ths stay exact.
SmoothUnit == Pow(BlendDen, MaxFrames)

\* 1 - Math.exp(-delta * CAMERA_CONFIG.smoothFactor) in BlendDen-ths, for
\* the frame times delta >= 0 at which it is a whole number of them: 0 at
\* delta = 0, k at delta = ln(BlendDen / (BlendDen - k)) / smoothFactor, and
\* BlendDen for a frame so long (delta > 9.4 s at smoothFactor 4) that
\* exp() is below half an ulp of 1 and the subtraction returns 1.
FrameBlends == 0..BlendDen

\* variant: the blend applied at twice the rate
Blend_TwiceRate(current, target, num) ==
  current + ((target * SmoothUnit - current) * 2 * num) \div BlendDen

\* current += (target - current) * smoothFactor; Vector3.lerp per component
Blend(current, target, num) ==
  current + ((target * SmoothUnit - current) * num) \div BlendDen

\* the blend of MaxFrames frames is exact: no remainder is dropped
Exact(current, target, num) ==
  ((target * SmoothUnit - current) * num) % BlendDen = 0

\* variant: the recentring blend at the rate of the other quantities
Recentre_SingleRate(current, num) == current + ((0 - current) * num) \div BlendDen

\* lines 961-962: cameraYaw += (0 - cameraYaw) * smoothFactor * 2
Recentre(current, num) == current + ((0 - current) * num * 2) \div BlendDen

\* the recentring blend is exact: no remainder is dropped
ExactRecentre(current, num) == ((0 - current) * num * 2) % BlendDen = 0

\* CONFIG.depth.startZ - folder.depth * CONFIG.depth.step
PlatformZ(folderId) == StartZ - FolderOf(folderId).depth * DepthStep

\* setCameraToFolder, line 991: (xPos, CONFIG.platform.height / 2, platformZ)
\* as <<doubled x in layout units, y in tenths, z>>
FolderCentre(folderId) ==
  << calculateFolderPositions[folderId], PlatformHeight10 \div 2, PlatformZ(folderId) >>

\* the point state.targetLookAt holds after the module-level construction
\* ("origin") or after setCameraToFolder (a folder id)
TargetPoint ==
  IF targetLookAt = "origin" THEN << 0, 0, 0 >> ELSE FolderCentre(targetLookAt)

\* updateCameraSmooth(delta), lines 951-957, with the frame's blend factor
UpdateCameraSmooth(num) ==
  /\ currentLookAt' = [i \in 1..3 |-> Blend(currentLookAt[i], TargetPoint[i], num)]
  /\ currentDistance' = Blend(currentDistance, targetDistance, num)
  /\ currentHeight' = Blend(currentHeight, targetHeight, num)
  /\ IF ~isLooking
     THEN /\ cameraYaw' = Recentre(cameraYaw, num)
          /\ cameraPitch' = Recentre(cameraPitch, num)
     ELSE UNCHANGED <<cameraYaw, cameraPitch>>

\* ------------------------------------------------------------------------
\* Pure helpers of the handlers
\* ------------------------------------------------------------------------
\* Array.prototype.indexOf: 0-based index of the first occurrence, or -1
IndexOf(h, f) ==
  IF \E i \in 1..Len(h) : h[i] = f
  THEN (CHOOSE i \in 1..Len(h) : h[i] = f /\ \A j \in 1..(i - 1) : h[j] # f) - 1
  ELSE -1

\* variant: slice() with an exclusive end taken one element short
Slice0_OneShort(h, end) == SubSeq(h, 1, Min(end, Len(h)) - 1)

\* Array.prototype.slice(0, end)
Slice0(h, end) == SubSeq(h, 1, Min(end, Len(h)))

\* variant: a folder already in history is re-entered without cutting the tail
HistoryAfterEnter_KeepsTail(h, folderId, addToHistory) ==
  IF addToHistory /\ IndexOf(h, folderId) = -1 THEN Append(h, folderId) ELSE h

\* enterFolder, lines 1183-1193: the history update
HistoryAfterEnter(h, folderId, addToHistory) ==
  IF addToHistory
  THEN LET existingIndex == IndexOf(h, folderId)
       IN IF existingIndex # -1
          THEN Slice0(h, existingIndex + 1)
          ELSE Append(h, folderId)
  ELSE h

\* showCurrentFolder, lines 729-735: one folder's nodes.forEach of the search
RECURSIVE VisitNodes(_, _, _)
VisitNodes(nodes, k, acc) ==
  IF k > Len(nodes) THEN acc
  ELSE LET next == nodes[k].nextFolderId
       IN IF next # NULL /\ next \notin acc.visited
          THEN VisitNodes(nodes, k + 1,
                 [visited |-> acc.visited \cup {next},
                  show |-> acc.show \cup {next},
                  queue |-> Append(acc.queue, next)])
          ELSE VisitNodes(nodes, k + 1, acc)

\* showCurrentFolder, lines 724-737: the while loop over the queue
RECURSIVE BfsLoop(_)
BfsLoop(acc) ==
  IF acc.queue = << >> THEN acc.show
  ELSE LET currentId == Head(acc.queue)
           rest == [acc EXCEPT !.queue = Tail(acc.queue)]
       IN IF currentId \in FolderIds
          THEN BfsLoop(VisitNodes(FolderOf(currentId).nodes, 1, rest))
          ELSE BfsLoop(rest)

\* variant: only the direct children of the history folders are added
ComputeFoldersToShow_ChildrenOnly(h) ==
  SeqToSet(h) \cup
    {FolderOf(f).nodes[k].nextFolderId :
       <<f, k>> \in {x \in (SeqToSet(h) \cap FolderIds) \X (1..Cardinality(NodeIds)) :
                       /\ x[2] <= Len(FolderOf(x[1]).nodes)
                       /\ FolderOf(x[1]).nodes[x[2]].nextFolderId # NULL}}

\* variant: the search is seeded with the last folder of the history alone
ComputeFoldersToShow_FromCurrent(h) ==
  LET last == <<h[Len(h)]>>
  IN BfsLoop([visited |-> SeqToSet(last), show |-> SeqToSet(last), queue |-> last])

\* showCurrentFolder, lines 714-737: foldersToShow
ComputeFoldersToShow(h) ==
  BfsLoop([visited |-> SeqToSet(h), show |-> SeqToSet(h), queue |-> h])

\* variant: a solve recorded under any folder counts
isPuzzleSolved_AnyFolder(folderId, puzzleId) ==
  \E f \in FolderIds : <<f, puzzleId>> \in puzzlesSolved

\* isPuzzleSolved
isPuzzleSolved(folderId, puzzleId) == <<folderId, puzzleId>> \in puzzlesSolved

\* getPuzzleId
getPuzzleId(node) == PUZZLE

\* triggerTrap 'back', line 1288: Object.values(FOLDER_GRAPH).find(depth - 1)
PrevFolderOf(folderId) ==
  LET d == FolderOf(folderId).depth - 1
      hits == {i \in 1..Len(FOLDER_GRAPH) : FOLDER_GRAPH[i].depth = d}
  IN IF hits = {} THEN NULL
     ELSE FOLDER_GRAPH[CHOOSE i \in hits : \A j \in hits : i <= j].id

\* zoomCamera: delta * zoomSpeed * 10
ZoomAmount(delta) == (delta * CAMERA_CONFIG(cfg).zoomSpeedPct * 10) \div 100

\* Math.max(lo, Math.min(hi, x))
Clamp(x, lo, hi) == Max(lo, Min(hi, x))

\* no call of showCurrentFolder is being followed step by step
SearchIdle ==
  /\ searchPhase = "idle"
  /\ queue = << >>
  /\ visited = {}
  /\ searchShow = {}
  /\ dequeuedId = NULL
  /\ nodeIndex = 0

\* ------------------------------------------------------------------------
\* Initial state: the module-level `state` object before init() runs
\* ------------------------------------------------------------------------
InitIn(scenarios) ==
  /\ \E s \in scenarios : g = s[1] /\ cfg = s[2]
  /\ g = "layout" => shape \in LayoutShapes
  /\ g = "grid" => shape \in GridShapes
  /\ g \notin {"layout", "grid"} => shape = << >>
  /\ platformMeshes = << >>
  /\ shuffleDraws \in IF g = "grid" THEN GridDraws
                      ELSE {[i \in 1..Len(FOLDER_GRAPH) |->
                               NoSwapDraws(Len(FOLDER_GRAPH[i].nodes))]}
  /\ nodePositions = << >>
  /\ booted = FALSE
  /\ currentFolderId = ROOT
  /\ selectedNodeId = NULL
  /\ isTransitioning = FALSE
  /\ isWon = FALSE
  /\ navigationHistory = <<ROOT>>
  /\ puzzlesSolved = {}
  /\ currentPuzzleId = NULL
  /\ currentTerminalNextFolder = NULL
  /\ terminal = "closed"
  /\ cameraMode = "folder"
  /\ targetLookAt = "origin"
  /\ targetDistance = CAMERA_CONFIG(cfg).folder.initialDistance
  /\ targetHeight = CAMERA_CONFIG(cfg).folder.initialHeight
  /\ isInitialLoad = TRUE
  /\ lastFolderDistance = CAMERA_CONFIG(cfg).folder.maxDistance
  /\ currentLookAt = << 0, 0, 0 >>
  /\ currentDistance = CAMERA_CONFIG(cfg).folder.initialDistance * SmoothUnit
  /\ currentHeight = CAMERA_CONFIG(cfg).folder.initialHeight * SmoothUnit
  /\ cameraYaw = 0
  /\ cameraPitch = 0
  /\ isLooking = FALSE
  /\ lookDrags = << >>
  /\ foldersToShow = {}
  /\ meshVisible = {}
  /\ raycastTargets = {}
  /\ breadcrumbLen = 0
  /\ sinceClick = DoubleClickMs
  /\ enterAnims = << >>
  /\ backTimers = << >>
  /\ lockoutTimers = << >>
  /\ SearchIdle
  /\ lastClickHit = "none"

Init == InitIn(Scenarios)
InitLockout == InitIn(LockScenarios)
InitLayout == InitIn(LayoutScenarios)
InitDangle == InitIn(DangleScenarios)
InitHazard == InitIn(HazardScenarios)
InitBack == InitIn(BackScenarios)
InitGrid == InitIn(GridScenarios)

\* Inputs of updateCameraSmooth: a running session whose camera targets and
\* smoothed values are drawn from the values the handlers assign
SmoothDistances ==
  {CAMERA_CONFIG(cfg).node.selectDistance, CAMERA_CONFIG(cfg).node.maxDistance,
   CAMERA_CONFIG(cfg).folder.initialDistance}
SmoothHeights ==
  {CAMERA_CONFIG(cfg).node.minHeight, CAMERA_CONFIG(cfg).folder.initialHeight}
SmoothTargets == {"origin"} \cup FolderIds

InitSmooth ==
  /\ \E s \in SmoothScenarios : g = s[1] /\ cfg = s[2]
  /\ shape = << >>
  /\ platformMeshes = buildAllPlatforms
  /\ shuffleDraws = [i \in 1..Len(FOLDER_GRAPH) |-> NoSwapDraws(Len(FOLDER_GRAPH[i].nodes))]
  /\ nodePositions = createAllNodes(shuffleDraws)
  /\ booted = TRUE
  /\ currentFolderId = ROOT
  /\ selectedNodeId = NULL
  /\ isTransitioning = FALSE
  /\ isWon = FALSE
  /\ navigationHistory = <<ROOT>>
  /\ puzzlesSolved = {}
  /\ currentPuzzleId = NULL
  /\ currentTerminalNextFolder = NULL
  /\ terminal = "closed"
  /\ cameraMode = "folder"
  /\ targetLookAt \in SmoothTargets
  /\ targetDistance \in SmoothDistances
  /\ targetHeight \in SmoothHeights
  /\ isInitialLoad = FALSE
  /\ lastFolderDistance = CAMERA_CONFIG(cfg).folder.maxDistance
  /\ \E t \in SmoothTargets :
       currentLookAt = [i \in 1..3 |->
          (IF t = "origin" THEN 0 ELSE FolderCentre(t)[i]) * SmoothUnit]
  /\ \E d \in SmoothDistances : currentDistance = d * SmoothUnit
  /\ \E h \in SmoothHeights : currentHeight = h * SmoothUnit
  /\ cameraYaw = 0
  /\ cameraPitch = 0
  /\ isLooking = FALSE
  /\ lookDrags = << >>
  /\ foldersToShow = ComputeFoldersToShow(<<ROOT>>)
  /\ meshVisible = {m.nodeId : m \in {x \in nodeMeshes : x.folderId \in foldersToShow}}
  /\ raycastTargets = meshVisible
  /\ breadcrumbLen = 1
  /\ sinceClick = DoubleClickMs
  /\ enterAnims = << >>
  /\ backTimers = << >>
  /\ lockoutTimers = << >>
  /\ SearchIdle
  /\ lastClickHit = "none"

\* ------------------------------------------------------------------------
\* Camera and visibility sub-steps
\* ------------------------------------------------------------------------
\* variant: the initial distance and height are used on every call
SetCameraToFolder_AlwaysInitial(folderId) ==
  /\ targetLookAt' = folderId
  /\ targetDistance' = CAMERA_CONFIG(cfg).folder.initialDistance
  /\ targetHeight' = CAMERA_CONFIG(cfg).folder.initialHeight
  /\ cameraMode' = "folder"
  /\ isInitialLoad' = FALSE

\* setCameraToFolder(folderId): the look-at target is the platform centre
SetCameraToFolder(folderId) ==
  /\ targetLookAt' = folderId
  /\ targetDistance' = IF isInitialLoad THEN CAMERA_CONFIG(cfg).folder.initialDistance
                       ELSE CAMERA_CONFIG(cfg).folder.maxDistance
  /\ targetHeight' = IF isInitialLoad THEN CAMERA_CONFIG(cfg).folder.initialHeight
                     ELSE CAMERA_CONFIG(cfg).folder.maxHeight
  /\ cameraMode' = "folder"
  /\ isInitialLoad' = FALSE

\* updateBreadcrumb(): the number of items built; the loop throws on
\* folder.name at the first id of the history that names no folder
BreadcrumbItems(h) ==
  IF \A i \in 1..Len(h) : h[i] \in FolderIds THEN Len(h)
  ELSE CHOOSE i \in 1..Len(h) : h[i] \notin FolderIds /\ \A j \in 1..(i - 1) : h[j] \in FolderIds

\* showCurrentFolder(), run with the new current folder and the new history
ShowCurrentFolder(folderId, h) ==
  /\ selectedNodeId' = NULL
  /\ SetCameraToFolder(folderId)
  /\ foldersToShow' = ComputeFoldersToShow(h)
  /\ meshVisible' = {m.nodeId : m \in {x \in nodeMeshes : x.folderId \in foldersToShow'}}
  /\ raycastTargets' = meshVisible'
  /\ breadcrumbLen' = BreadcrumbItems(h)

\* deselectNode()
DeselectNode ==
  /\ selectedNodeId' = NULL
  /\ cameraMode' = "folder"

\* enterFolder(folderId, addToHistory), called with history h
EnterFolder(h, folderId, addToHistory) ==
  /\ isTransitioning' = TRUE
  /\ navigationHistory' = HistoryAfterEnter(h, folderId, addToHistory)
  /\ IF folderId \in FolderIds
     THEN /\ Len(enterAnims) < MaxEnterAnims
          /\ SetCameraToFolder(folderId)
          /\ meshVisible' = (meshVisible \ NodesOfFolder(currentFolderId))
                              \cup NodesOfFolder(folderId)
          /\ raycastTargets' = meshVisible'
          /\ enterAnims' = Append(enterAnims,
                              [folderId |-> folderId, remaining |-> EnterDuration])
          /\ UNCHANGED <<currentFolderId, selectedNodeId, isWon, lastFolderDistance,
                         foldersToShow, breadcrumbLen>>
     ELSE \* FOLDER_GRAPH[folderId] is undefined: setCameraToFolder throws a
          \* TypeError on folder.depth and the rest of the handler never runs
          UNCHANGED <<currentFolderId, selectedNodeId, isWon, camVars, viewVars,
                      enterAnims>>

\* init(): buildAllPlatforms, showCurrentFolder, setupEventListeners
Boot ==
  /\ ~booted
  /\ booted' = TRUE
  /\ platformMeshes' = buildAllPlatforms
  /\ nodePositions' = createAllNodes(shuffleDraws)
  /\ currentLookAt' = << 0, (PlatformHeight10 \div 2) * SmoothUnit,
                        PlatformZ(currentFolderId) * SmoothUnit >>
  /\ currentDistance' = CAMERA_CONFIG(cfg).folder.initialDistance * SmoothUnit
  /\ currentHeight' = CAMERA_CONFIG(cfg).folder.initialHeight * SmoothUnit
  /\ ShowCurrentFolder(currentFolderId, navigationHistory)
  /\ UNCHANGED <<lastClickHit, searchVars, g, cfg, shape, shuffleDraws, lookVars, currentFolderId,
                 isTransitioning, isWon,
                 navigationHistory, puzzleVars, lastFolderDistance, sinceClick,
                 timerVars>>

\* ------------------------------------------------------------------------
\* showCurrentFolder() followed statement by statement
\* ------------------------------------------------------------------------
searchFrame == <<lastClickHit, g, cfg, shape, platformMeshes, gridVars, smoothVars, lookVars, booted,
                 currentFolderId, isTransitioning, isWon, navigationHistory,
                 puzzleVars, lastFolderDistance, sinceClick, timerVars>>

\* lines 701-722: the selection reset, setCameraToFolder, and the queue and
\* the visited set copied from navigationHistory
SearchBegin ==
  /\ booted
  /\ searchPhase = "idle"
  /\ searchPhase' = "loop"
  /\ selectedNodeId' = NULL
  /\ SetCameraToFolder(currentFolderId)
  /\ searchShow' = SeqToSet(navigationHistory)
  /\ queue' = navigationHistory
  /\ visited' = SeqToSet(navigationHistory)
  /\ UNCHANGED <<dequeuedId, nodeIndex, viewVars, searchFrame>>

\* queue.shift() taken from an array shared with navigationHistory
SearchShift_SharedArray ==
  /\ searchPhase = "loop"
  /\ dequeuedId = NULL
  /\ queue # << >>
  /\ dequeuedId' = Head(queue)
  /\ queue' = Tail(queue)
  /\ navigationHistory' = Tail(queue)
  /\ nodeIndex' = 1
  /\ UNCHANGED <<lastClickHit, g, cfg, shape, platformMeshes, gridVars, smoothVars,
                 lookVars, booted, currentFolderId, selectedNodeId, isTransitioning, isWon,
                 puzzleVars, camVars, viewVars, sinceClick, timerVars,
                 searchPhase, visited, searchShow>>

\* lines 724-726: while (queue.length > 0) { dequeuedId = queue.shift()
SearchShift ==
  /\ searchPhase = "loop"
  /\ dequeuedId = NULL
  /\ queue # << >>
  /\ dequeuedId' = Head(queue)
  /\ queue' = Tail(queue)
  /\ nodeIndex' = 1
  /\ UNCHANGED <<searchPhase, visited, searchShow, selectedNodeId, camVars, viewVars,
                 searchFrame>>

\* the forEach callback without the visited test
SearchVisit_NoVisitedTest ==
  /\ searchPhase = "loop"
  /\ dequeuedId \in FolderIds
  /\ nodeIndex <= Len(FolderOf(dequeuedId).nodes)
  /\ LET next == FolderOf(dequeuedId).nodes[nodeIndex].nextFolderId
     IN IF next # NULL
        THEN /\ visited' = visited \cup {next}
             /\ searchShow' = searchShow \cup {next}
             /\ queue' = Append(queue, next)
        ELSE UNCHANGED <<visited, searchShow, queue>>
  /\ nodeIndex' = nodeIndex + 1
  /\ UNCHANGED <<searchPhase, dequeuedId, selectedNodeId, camVars, viewVars, searchFrame>>

\* lines 729-735: one call of the forEach callback
SearchVisit ==
  /\ searchPhase = "loop"
  /\ dequeuedId \in FolderIds
  /\ nodeIndex <= Len(FolderOf(dequeuedId).nodes)
  /\ LET next == FolderOf(dequeuedId).nodes[nodeIndex].nextFolderId
     IN IF next # NULL /\ next \notin visited
        THEN /\ visited' = visited \cup {next}
             /\ searchShow' = searchShow \cup {next}
             /\ queue' = Append(queue, next)
        ELSE UNCHANGED <<visited, searchShow, queue>>
  /\ nodeIndex' = nodeIndex + 1
  /\ UNCHANGED <<searchPhase, dequeuedId, selectedNodeId, camVars, viewVars, searchFrame>>

\* lines 728 and 736: the folder is missing, or its forEach is over
SearchNext ==
  /\ searchPhase = "loop"
  /\ dequeuedId # NULL
  /\ dequeuedId \in FolderIds => nodeIndex > Len(FolderOf(dequeuedId).nodes)
  /\ dequeuedId' = NULL
  /\ nodeIndex' = 0
  /\ UNCHANGED <<searchPhase, queue, visited, searchShow, selectedNodeId, camVars,
                 viewVars, searchFrame>>

\* lines 739-773: the queue is empty; visibility, hit targets and breadcrumb
SearchEnd ==
  /\ searchPhase = "loop"
  /\ dequeuedId = NULL
  /\ queue = << >>
  /\ searchPhase' = "done"
  /\ foldersToShow' = searchShow
  /\ meshVisible' = {m.nodeId : m \in {x \in nodeMeshes : x.folderId \in searchShow}}
  /\ raycastTargets' = meshVisible'
  /\ breadcrumbLen' = BreadcrumbItems(navigationHistory)
  /\ UNCHANGED <<queue, visited, searchShow, dequeuedId, nodeIndex, selectedNodeId,
                 camVars, searchFrame>>

\* ------------------------------------------------------------------------
\* Selection and double-click handlers
\* ------------------------------------------------------------------------
\* handleNodeClick without the zoom to nodeZoomDistance
HandleNodeClick_KeepDistance(nodeId) ==
  /\ selectedNodeId' = nodeId
  /\ cameraMode' = "node"
  /\ targetLookAt' = nodeId
  /\ UNCHANGED <<currentFolderId, isTransitioning, isWon, navigationHistory, puzzleVars,
                 targetDistance, targetHeight, isInitialLoad, lastFolderDistance,
                 viewVars, timerVars>>

\* handleNodeClick(nodeId)
HandleNodeClick(nodeId) ==
  /\ selectedNodeId' = nodeId
  /\ cameraMode' = "node"
  /\ targetLookAt' = nodeId
  /\ targetDistance' = CAMERA_CONFIG(cfg).node.selectDistance
  /\ UNCHANGED <<currentFolderId, isTransitioning, isWon, navigationHistory, puzzleVars,
                 targetHeight, isInitialLoad, lastFolderDistance, viewVars, timerVars>>

\* clearSelection()
ClearSelection ==
  /\ DeselectNode
  /\ UNCHANGED <<currentFolderId, isTransitioning, isWon, navigationHistory, puzzleVars,
                 targetLookAt, targetDistance, targetHeight, isInitialLoad,
                 lastFolderDistance, viewVars, timerVars>>

\* showTerminal(node)
ShowTerminal(node) ==
  /\ currentPuzzleId' = getPuzzleId(node)
  /\ currentTerminalNextFolder' = node.nextFolderId
  /\ terminal' = "open"
  /\ UNCHANGED <<navVars, puzzlesSolved, camVars, viewVars, timerVars>>

\* triggerWin()
TriggerWin ==
  /\ isWon' = TRUE
  /\ UNCHANGED <<currentFolderId, selectedNodeId, isTransitioning, navigationHistory,
                 puzzleVars, camVars, viewVars, timerVars>>

\* triggerTrap with the lockout branch taken for every effect
TriggerTrap_AlwaysLockout(effect) ==
  /\ Len(lockoutTimers) < MaxLockouts
  /\ isTransitioning' = TRUE
  /\ lockoutTimers' = Append(lockoutTimers, LockoutDelay)
  /\ UNCHANGED <<currentFolderId, selectedNodeId, isWon, navigationHistory,
                 puzzleVars, camVars, viewVars, enterAnims, backTimers>>

\* triggerTrap(effect)
TriggerTrap(effect) ==
  CASE effect = "back" ->
         LET prevFolder == PrevFolderOf(currentFolderId)
         IN /\ IF prevFolder # NULL
               THEN /\ Len(backTimers) < MaxBackTimers
                    /\ backTimers' = Append(backTimers,
                         [folderId |-> prevFolder, remaining |-> BackTrapDelay])
               ELSE UNCHANGED backTimers
            /\ UNCHANGED <<navVars, puzzleVars, camVars, viewVars, enterAnims, lockoutTimers>>
    [] effect = "lockout" ->
         /\ Len(lockoutTimers) < MaxLockouts
         /\ isTransitioning' = TRUE
         /\ lockoutTimers' = Append(lockoutTimers, LockoutDelay)
         /\ UNCHANGED <<currentFolderId, selectedNodeId, isWon, navigationHistory,
                        puzzleVars, camVars, viewVars, enterAnims, backTimers>>
    [] OTHER ->
         UNCHANGED <<navVars, puzzleVars, camVars, viewVars, timerVars>>

\* showLore, showClue, denyAccess and the fall-through: no core state changes
NoCoreEffect == UNCHANGED <<navVars, puzzleVars, camVars, viewVars, timerVars>>

\* handleNodeDoubleClick(nodeId)
HandleNodeDoubleClick(nodeId) ==
  LET node == MeshOf(nodeId).nodeData
  IN CASE node.type = "lore" -> NoCoreEffect
       [] node.type = "clue" -> NoCoreEffect
       [] node.type = "terminal" ->
            IF isPuzzleSolved(currentFolderId, getPuzzleId(node))
            THEN IF node.nextFolderId # NULL
                 THEN /\ EnterFolder(navigationHistory, node.nextFolderId, TRUE)
                      /\ UNCHANGED <<puzzleVars, backTimers, lockoutTimers>>
                 ELSE NoCoreEffect
            ELSE ShowTerminal(node)
       [] OTHER ->
            IF node.enterable
            THEN IF node.nextFolderId = NULL
                 THEN TriggerWin
                 ELSE /\ EnterFolder(navigationHistory, node.nextFolderId, TRUE)
                      /\ UNCHANGED <<puzzleVars, backTimers, lockoutTimers>>
            ELSE IF node.type = "trap"
                 THEN TriggerTrap(node.trapEffect)
                 ELSE NoCoreEffect

\* onClick(event): target is the nearest intersected hit target, or NULL
OnClick(target) ==
  /\ booted
  /\ sinceClick' = 0
  /\ UNCHANGED <<searchVars, g, cfg, shape, platformMeshes, gridVars, smoothVars, lookVars, booted>>
  /\ IF isTransitioning \/ isWon
     THEN UNCHANGED <<navVars, puzzleVars, camVars, viewVars, timerVars>>
     ELSE IF target # NULL
          THEN IF sinceClick < DoubleClickMs
               THEN HandleNodeDoubleClick(target)
               ELSE HandleNodeClick(target)
          ELSE ClearSelection

\* ------------------------------------------------------------------------
\* Zoom
\* ------------------------------------------------------------------------
\* zoomCamera(delta)
ZoomCamera(delta) ==
  IF cameraMode = "node"
  THEN LET moved == targetDistance + ZoomAmount(delta)
       IN IF moved > CAMERA_CONFIG(cfg).deselectThreshold /\ selectedNodeId # NULL
          THEN /\ DeselectNode
               /\ targetDistance' = lastFolderDistance
               /\ UNCHANGED lastFolderDistance
          ELSE /\ targetDistance' = Clamp(moved, CAMERA_CONFIG(cfg).node.minDistance,
                                          CAMERA_CONFIG(cfg).node.maxDistance)
               /\ UNCHANGED <<selectedNodeId, cameraMode, lastFolderDistance>>
  ELSE /\ lastFolderDistance' = Min(targetDistance, CAMERA_CONFIG(cfg).folder.maxDistance)
       /\ targetDistance' = Clamp(targetDistance + ZoomAmount(delta),
                                  CAMERA_CONFIG(cfg).folder.minDistance,
                                  CAMERA_CONFIG(cfg).folder.maxDistance)
       /\ UNCHANGED <<selectedNodeId, cameraMode>>

\* onWheel(event)
OnWheel(delta) ==
  /\ booted
  /\ UNCHANGED <<lastClickHit, searchVars, g, cfg, shape, platformMeshes, gridVars, smoothVars, lookVars, booted, sinceClick>>
  /\ IF isTransitioning \/ isWon
     THEN UNCHANGED <<navVars, puzzleVars, camVars, viewVars, timerVars>>
     ELSE /\ ZoomCamera(delta)
          /\ UNCHANGED <<currentFolderId, isTransitioning, isWon, navigationHistory,
                         puzzleVars, targetLookAt, targetHeight, isInitialLoad,
                         viewVars, timerVars>>

\* ------------------------------------------------------------------------
\* Breadcrumb
\* ------------------------------------------------------------------------
\* navigateToHistoryIndex without the slice of line 814
NavigateToHistoryIndex_KeepsTail(targetIndex) ==
  /\ booted
  /\ UNCHANGED <<lastClickHit, searchVars, g, cfg, shape, platformMeshes, gridVars, smoothVars, lookVars, booted, sinceClick>>
  /\ IF isTransitioning \/ isWon
        \/ targetIndex >= Len(navigationHistory)
        \/ navigationHistory[targetIndex + 1] = currentFolderId
     THEN UNCHANGED <<navVars, puzzleVars, camVars, viewVars, timerVars>>
     ELSE /\ EnterFolder(navigationHistory, navigationHistory[targetIndex + 1], FALSE)
          /\ UNCHANGED <<puzzleVars, backTimers, lockoutTimers>>

\* navigateToHistoryIndex(targetIndex), targetIndex 0-based
NavigateToHistoryIndex(targetIndex) ==
  /\ booted
  /\ UNCHANGED <<lastClickHit, searchVars, g, cfg, shape, platformMeshes, gridVars, smoothVars, lookVars, booted, sinceClick>>
  /\ IF isTransitioning \/ isWon
        \/ targetIndex >= Len(navigationHistory)
        \/ navigationHistory[targetIndex + 1] = currentFolderId
     THEN UNCHANGED <<navVars, puzzleVars, camVars, viewVars, timerVars>>
     ELSE /\ EnterFolder(Slice0(navigationHistory, targetIndex + 1),
                         navigationHistory[targetIndex + 1], FALSE)
          /\ UNCHANGED <<puzzleVars, backTimers, lockoutTimers>>

\* click on a breadcrumb item rendered by the last updateBreadcrumb()
BreadcrumbClick == \E i \in 0..(breadcrumbLen - 2) : NavigateToHistoryIndex(i)

\* ------------------------------------------------------------------------
\* Terminal overlay
\* ------------------------------------------------------------------------
\* submitPassword() with the correct password: the CONTINUE button appears
SubmitPassword ==
  /\ terminal = "open"
  /\ terminal' = "granted"
  /\ UNCHANGED <<lastClickHit, searchVars, g, cfg, shape, platformMeshes, gridVars, smoothVars, lookVars, booted, navVars, puzzlesSolved, currentPuzzleId,
                 currentTerminalNextFolder, camVars, viewVars, sinceClick, timerVars>>

\* closeTerminal() on Escape
CloseTerminal ==
  /\ terminal # "closed"
  /\ terminal' = "closed"
  /\ UNCHANGED <<lastClickHit, searchVars, g, cfg, shape, platformMeshes, gridVars, smoothVars, lookVars, booted, navVars, puzzlesSolved, currentPuzzleId,
                 currentTerminalNextFolder, camVars, viewVars, sinceClick, timerVars>>

\* variant: the record of the current solve replaces the map
MarkSolved_Replaces(solved, folderId, puzzleId) == {<<folderId, puzzleId>>}

\* unlockPuzzle, lines 1643-1647: state.puzzlesSolved[folderId][puzzleId] = true
MarkSolved(solved, folderId, puzzleId) == solved \cup {<<folderId, puzzleId>>}

\* unlockPuzzle(puzzleId, nextFolderId)
UnlockPuzzle(puzzleId, nextFolderId) ==
  IF puzzleId # PUZZLE
  THEN UNCHANGED <<navVars, puzzlesSolved, camVars, viewVars, timerVars>>
  ELSE /\ puzzlesSolved' = MarkSolved(puzzlesSolved, currentFolderId, puzzleId)
       /\ LET destinationFolder ==
                IF nextFolderId # NULL THEN nextFolderId ELSE currentTerminalNextFolder
          IN IF destinationFolder # NULL
             THEN /\ EnterFolder(navigationHistory, destinationFolder, TRUE)
                  /\ UNCHANGED <<backTimers, lockoutTimers>>
             ELSE UNCHANGED <<navVars, camVars, viewVars, timerVars>>

\* window.continueToNextFolder(): the CONTINUE button
ContinueToNextFolder ==
  /\ terminal = "granted"
  /\ terminal' = "closed"
  /\ UnlockPuzzle(currentPuzzleId, currentTerminalNextFolder)
  /\ UNCHANGED <<lastClickHit, searchVars, g, cfg, shape, platformMeshes, gridVars, smoothVars, lookVars, booted, currentPuzzleId, currentTerminalNextFolder, sinceClick>>

\* ------------------------------------------------------------------------
\* Timed effects
\* ------------------------------------------------------------------------
\* animateEnter(), the frame on which t reaches 1
AnimateEnterDone ==
  /\ enterAnims # << >>
  /\ Head(enterAnims).remaining = 0
  /\ currentFolderId' = Head(enterAnims).folderId
  /\ isTransitioning' = FALSE
  /\ ShowCurrentFolder(Head(enterAnims).folderId, navigationHistory)
  /\ enterAnims' = Tail(enterAnims)
  /\ UNCHANGED <<lastClickHit, searchVars, g, cfg, shape, platformMeshes, gridVars, smoothVars, lookVars, booted, isWon, navigationHistory, puzzleVars,
                 lastFolderDistance, sinceClick, backTimers, lockoutTimers>>

\* triggerTrap 'back': the setTimeout callback
BackTimerFire ==
  /\ backTimers # << >>
  /\ Head(backTimers).remaining = 0
  /\ EnterFolder(navigationHistory, Head(backTimers).folderId, TRUE)
  /\ backTimers' = Tail(backTimers)
  /\ UNCHANGED <<lastClickHit, searchVars, g, cfg, shape, platformMeshes, gridVars, smoothVars, lookVars, booted, puzzleVars, sinceClick, lockoutTimers>>

\* triggerTrap 'lockout': the setTimeout callback
LockoutTimerFire ==
  /\ lockoutTimers # << >>
  /\ Head(lockoutTimers) = 0
  /\ isTransitioning' = FALSE
  /\ lockoutTimers' = Tail(lockoutTimers)
  /\ UNCHANGED <<lastClickHit, searchVars, g, cfg, shape, platformMeshes, gridVars, smoothVars, lookVars, booted, currentFolderId, selectedNodeId, isWon,
                 navigationHistory, puzzleVars, camVars, viewVars, sinceClick,
                 enterAnims, backTimers>>

\* Time to the next instant at which something is due: a pending callback,
\* the end of an enter animation, or the end of the double-click window
Deadlines ==
  {enterAnims[i].remaining : i \in 1..Len(enterAnims)}
    \cup {backTimers[i].remaining : i \in 1..Len(backTimers)}
    \cup {lockoutTimers[i] : i \in 1..Len(lockoutTimers)}
    \cup (IF sinceClick < DoubleClickMs THEN {DoubleClickMs - sinceClick} ELSE {})

\* Time passes up to the next deadline; a due callback runs before time moves on
Tick ==
  /\ booted
  /\ Deadlines # {}
  /\ \A d \in Deadlines : d > 0
  /\ LET dt == CHOOSE d \in Deadlines : \A e \in Deadlines : d <= e
     IN /\ enterAnims' = [i \in 1..Len(enterAnims) |->
                            [enterAnims[i] EXCEPT !.remaining = @ - dt]]
        /\ backTimers' = [i \in 1..Len(backTimers) |->
                            [backTimers[i] EXCEPT !.remaining = @ - dt]]
        /\ lockoutTimers' = [i \in 1..Len(lockoutTimers) |-> lockoutTimers[i] - dt]
        /\ sinceClick' = Min(sinceClick + dt, DoubleClickMs)
  /\ UNCHANGED <<lastClickHit, searchVars, g, cfg, shape, platformMeshes, gridVars, smoothVars, lookVars, booted, navVars, puzzleVars, camVars, viewVars>>

\* ------------------------------------------------------------------------
\* Specification
\* ------------------------------------------------------------------------
\* user input: canvas click and wheel listeners, breadcrumb item click
Click ==
  /\ \E target \in raycastTargets \cup {NULL} : OnClick(target)
  /\ UNCHANGED lastClickHit
Wheel == \E delta \in WheelDeltas : OnWheel(delta)

Next ==
  \/ Boot
  \/ Click
  \/ Wheel
  \/ BreadcrumbClick
  \/ SubmitPassword
  \/ CloseTerminal
  \/ ContinueToNextFolder
  \/ AnimateEnterDone
  \/ BackTimerFire
  \/ Tick

Spec == Init /\ [][Next]_vars

\* The graph with a 'lockout' trap: its timeout is one more timed effect; it has
\* no terminal node, so the overlay is never shown and its handlers never run.
NextLockout ==
  \/ Boot
  \/ Click
  \/ Wheel
  \/ BreadcrumbClick
  \/ AnimateEnterDone
  \/ BackTimerFire
  \/ LockoutTimerFire
  \/ Tick

SpecLockout == InitLockout /\ [][NextLockout]_vars

\* The graph with a dangling nextFolderId; it has no terminal node
NextDangle ==
  \/ Boot
  \/ Click
  \/ Wheel
  \/ BreadcrumbClick
  \/ AnimateEnterDone
  \/ BackTimerFire
  \/ Tick

SpecDangle == InitDangle /\ [][NextDangle]_vars

\* Layout inputs: init() builds the platforms
\* ------------------------------------------------------------------------
\* Look drag (right mouse button)
\* ------------------------------------------------------------------------
\* onMouseDown(event): button 0 starts a pan of camera.position.x, which the
\* next frame overwrites; button 2 starts a look drag
OnMouseDown(button, point) ==
  /\ booted
  /\ IF button = 2 /\ ~isTransitioning /\ ~isWon
     THEN /\ Len(lookDrags) < MaxLookDrags
          /\ isLooking' = TRUE
          /\ lookDrags' = Append(lookDrags,
                                 [startX |-> point[1], startY |-> point[2],
                                  startYaw |-> cameraYaw, startPitch |-> cameraPitch])
          /\ UNCHANGED <<cameraYaw, cameraPitch>>
     ELSE UNCHANGED lookVars
  /\ UNCHANGED <<lastClickHit, searchVars, g, cfg, shape, platformMeshes, gridVars, smoothVars, booted, navVars, puzzleVars,
                 camVars, viewVars, sinceClick, timerVars>>

\* variant: the drag sets yaw and pitch without the clamp
RECURSIVE LookMoves_Unclamped(_, _, _, _)
LookMoves_Unclamped(drags, k, point, angles) ==
  IF k > Len(drags) THEN angles
  ELSE LookMoves_Unclamped(drags, k + 1, point,
         << drags[k].startYaw - (point[1] - drags[k].startX) * SmoothUnit,
            drags[k].startPitch - (point[2] - drags[k].startY) * SmoothUnit >>)

\* the onMouseMove closures of the drags in progress, in registration order
RECURSIVE LookMoves(_, _, _, _)
LookMoves(drags, k, point, angles) ==
  IF k > Len(drags) THEN angles
  ELSE LET deltaX == point[1] - drags[k].startX
           deltaY == point[2] - drags[k].startY
       IN LookMoves(drags, k + 1, point,
            << Clamp(drags[k].startYaw - deltaX * SmoothUnit,
                     0 - YawLimit * SmoothUnit, YawLimit * SmoothUnit),
               Clamp(drags[k].startPitch - deltaY * SmoothUnit,
                     0 - PitchLimit * SmoothUnit, PitchLimit * SmoothUnit) >>)

\* a mousemove event on window
OnMouseMove(point) ==
  /\ booted
  /\ LET angles == LookMoves(lookDrags, 1, point, <<cameraYaw, cameraPitch>>)
     IN /\ cameraYaw' = angles[1]
        /\ cameraPitch' = angles[2]
  /\ UNCHANGED <<lastClickHit, searchVars, g, cfg, shape, platformMeshes, gridVars, smoothVars, booted, navVars, puzzleVars,
                 camVars, isLooking, lookDrags, viewVars, sinceClick, timerVars>>

\* a mouseup event on window: the onMouseUp closure of every drag runs
OnMouseUp ==
  /\ booted
  /\ lookDrags # << >>
  /\ isLooking' = FALSE
  /\ lookDrags' = << >>
  /\ UNCHANGED <<lastClickHit, searchVars, g, cfg, shape, platformMeshes, gridVars, smoothVars, booted, navVars, puzzleVars,
                 camVars, cameraYaw, cameraPitch, viewVars, sinceClick, timerVars>>

MouseDown == \E button \in {0, 2}, point \in PointerPoints : OnMouseDown(button, point)
MouseMove == \E point \in PointerPoints : OnMouseMove(point)

\* animate(): one frame; the blend factor stands for clock.getDelta()
AnimateFrame(num) ==
  /\ booted
  /\ \A i \in 1..3 : Exact(currentLookAt[i], TargetPoint[i], num)
  /\ Exact(currentDistance, targetDistance, num)
  /\ Exact(currentHeight, targetHeight, num)
  /\ isLooking \/ (ExactRecentre(cameraYaw, num) /\ ExactRecentre(cameraPitch, num))
  /\ UpdateCameraSmooth(num)
  /\ UNCHANGED <<lastClickHit, searchVars, g, cfg, shape, platformMeshes, gridVars, booted, navVars, puzzleVars, camVars,
                 isLooking, lookDrags, viewVars, sinceClick, timerVars>>

Animate == \E num \in FrameBlends : AnimateFrame(num)

NextLayout == Boot

SpecLayout == InitLayout /\ [][NextLayout]_vars

NextSmooth == Animate

NextHazard ==
  \/ Boot
  \/ Click
  \/ Wheel
  \/ BreadcrumbClick
  \/ AnimateEnterDone
  \/ BackTimerFire
  \/ Tick

SpecHazard == InitHazard /\ [][NextHazard]_vars

NextBack ==
  \/ Boot
  \/ Click
  \/ Wheel
  \/ BreadcrumbClick
  \/ AnimateEnterDone
  \/ BackTimerFire
  \/ Tick

SpecBack == InitBack /\ [][NextBack]_vars

LookScenarios == {<<"trap", 1>>}
InitLook == InitIn(LookScenarios)

NextLook == Boot \/ MouseDown \/ MouseMove \/ OnMouseUp \/ Animate

SpecLook == InitLook /\ [][NextLook]_vars

SpecSmooth == InitSmooth /\ [][NextSmooth]_vars

\* ------------------------------------------------------------------------
\* Vocabulary of the properties
\* ------------------------------------------------------------------------
LastOf(h) == IF h = << >> THEN NULL ELSE h[Len(h)]

\* some node of folder a leads to folder b
HasEdge(a, b) ==
  /\ a \in FolderIds
  /\ \E k \in 1..Len(FolderOf(a).nodes) : FolderOf(a).nodes[k].nextFolderId = b

\* this step started enterFolder(f, ...): its animateEnter loop was registered
EnterStarted(f) ==
  /\ Len(enterAnims') = Len(enterAnims) + 1
  /\ enterAnims'[Len(enterAnims')].folderId = f

\* this step ran showCurrentFolder(): init(), or the last frame of animateEnter
ShowCurrentFolderRan ==
  \/ ~booted /\ booted'
  \/ Len(enterAnims') < Len(enterAnims)

\* folders reachable from the set S along nextFolderId edges, by repeated images
RECURSIVE ReachWithin(_, _)
ReachWithin(S, n) ==
  IF n = 0 THEN S
  ELSE ReachWithin(S \cup {b \in FolderIds : \E a \in S : HasEdge(a, b)}, n - 1)

ReachableFrom(S) == ReachWithin(S, Cardinality(FolderIds))

\* ------------------------------------------------------------------------
\* C1
\* ------------------------------------------------------------------------
\* C1: navigationHistory is always a valid path of the graph that starts at the
\* root: each consecutive pair is joined by a nextFolderId edge.
C1_HistoryIsValidPath ==
  /\ navigationHistory # << >>
  /\ navigationHistory[1] = ROOT
  /\ \A k \in 1..(Len(navigationHistory) - 1) :
       HasEdge(navigationHistory[k], navigationHistory[k + 1])

\* ------------------------------------------------------------------------
\* C2
\* ------------------------------------------------------------------------
\* C2 as stated: in every reachable state the last element of
\* navigationHistory is the current folder.
C2_LastIsCurrentAlways == LastOf(navigationHistory) = currentFolderId

\* C2 (amended): whenever no enter transition is in flight (every enterFolder
\* call so far has run its animation to the end), the last element of
\* navigationHistory is the current folder.
C2_LastIsCurrentWhenSettled ==
  enterAnims = << >> => LastOf(navigationHistory) = currentFolderId

\* a transition has completed and left the machine settled in a deeper folder
C2_Witness ==
  /\ enterAnims = << >>
  /\ Len(navigationHistory) = 3
  /\ currentFolderId = "c"
  /\ ~isTransitioning

\* ------------------------------------------------------------------------
\* C3
\* ------------------------------------------------------------------------
\* C3: a step that starts enterFolder(f) leaves history equal to its old prefix
\* up to the first occurrence of f when f was present, and to the old history
\* with f appended when it was not; nothing else is added, removed or reordered.
C3_Step ==
  \A f \in FolderIds :
    EnterStarted(f) =>
      \/ /\ \A i \in 1..Len(navigationHistory) : navigationHistory[i] # f
         /\ Len(navigationHistory') = Len(navigationHistory) + 1
         /\ navigationHistory'[Len(navigationHistory')] = f
         /\ \A k \in 1..Len(navigationHistory) :
              navigationHistory'[k] = navigationHistory[k]
      \/ \E i \in 1..Len(navigationHistory) :
           /\ navigationHistory[i] = f
           /\ \A j \in 1..(i - 1) : navigationHistory[j] # f
           /\ navigationHistory' = [k \in 1..i |-> navigationHistory[k]]

C3_EnterTruncatesOrAppends == [][C3_Step]_vars

\* the re-entry case: root re-entered from c with history <<root, a, c>> cut to <<root>>
C3_Witness ==
  /\ g = "branch"
  /\ currentFolderId = "c"
  /\ navigationHistory = <<ROOT>>
  /\ enterAnims # << >>
  /\ enterAnims[1].folderId = ROOT

\* ------------------------------------------------------------------------
\* C4
\* ------------------------------------------------------------------------
\* C4: the set computed by showCurrentFolder contains the history, is closed
\* under edges to existing folders, and holds nothing but the history and the
\* folders reachable from it.
C4_Step ==
  ShowCurrentFolderRan =>
    /\ SeqToSet(navigationHistory') \subseteq foldersToShow'
    /\ \A a \in foldersToShow', b \in FolderIds : HasEdge(a, b) => b \in foldersToShow'
    /\ foldersToShow' \subseteq
         SeqToSet(navigationHistory') \cup ReachableFrom(SeqToSet(navigationHistory'))

C4_VisibleIsHistoryPlusReachable == [][C4_Step]_vars

\* at the root of the branching graph the set holds c (two edges away) but not
\* the folder no edge leads to
C4_Witness ==
  /\ g = "branch"
  /\ booted
  /\ navigationHistory = <<ROOT>>
  /\ foldersToShow = {"root_usr", "a", "b", "c"}

\* ------------------------------------------------------------------------
\* C5
\* ------------------------------------------------------------------------
\* C5: whenever input is accepted (no transition flag, not won), raycastTargets
\* is exactly the set of hit targets of the nodes of the folders that
\* showCurrentFolder would show for the present history.
C5_RaycastMatchesVisible ==
  (booted /\ ~isTransitioning /\ ~isWon) =>
    raycastTargets =
      {m.nodeId : m \in {x \in nodeMeshes :
                           x.folderId \in ComputeFoldersToShow(navigationHistory)}}

\* ------------------------------------------------------------------------
\* C6
\* ------------------------------------------------------------------------
\* the distance band of a camera mode
Band(mode) ==
  IF mode = "node" THEN CAMERA_CONFIG(cfg).node ELSE CAMERA_CONFIG(cfg).folder

\* this step is an accepted wheel event, i.e. a call of zoomCamera
ZoomCameraCalled == ~isTransitioning /\ ~isWon /\ Wheel

\* C6: after every call of zoomCamera the target distance lies within
\* [minDistance, maxDistance] of the mode that is active after the call.
C6_Step ==
  ZoomCameraCalled =>
    /\ Band(cameraMode').minDistance <= targetDistance'
    /\ targetDistance' <= Band(cameraMode').maxDistance

C6_ZoomStaysInBand == [][C6_Step]_vars

\* ------------------------------------------------------------------------
\* C7
\* ------------------------------------------------------------------------
\* C7: lastFolderDistance always holds the most recent folder-mode target
\* distance (clamped to the folder maximum), so that the zoom-out deselect
\* restores the distance the folder view had when the node was selected:
\* after every folder-mode zoom event the remembered distance is the distance
\* that event produced.
C7_Step ==
  (ZoomCameraCalled /\ cameraMode = "folder") =>
    lastFolderDistance' = Min(targetDistance', CAMERA_CONFIG(cfg).folder.maxDistance)

C7_RemembersFolderDistance == [][C7_Step]_vars

\* ------------------------------------------------------------------------
\* C8
\* ------------------------------------------------------------------------
\* C8: once isWon is true it stays true, and navigationHistory,
\* currentFolderId and selectedNodeId never change again.
C8_Step ==
  isWon =>
    /\ isWon'
    /\ navigationHistory' = navigationHistory
    /\ currentFolderId' = currentFolderId
    /\ selectedNodeId' = selectedNodeId

C8_WonIsTerminal == [][C8_Step]_vars

\* ------------------------------------------------------------------------
\* C9
\* ------------------------------------------------------------------------
\* C9: enterFolder is never started while isTransitioning or isWon holds,
\* whatever its origin, so at most one enter transition is in flight.
C9_Step ==
  (\E f \in FolderIds : EnterStarted(f)) =>
    /\ ~isTransitioning
    /\ ~isWon
    /\ enterAnims = << >>

C9_EnterOnlyWhenIdle == [][C9_Step]_vars

\* ------------------------------------------------------------------------
\* C10
\* ------------------------------------------------------------------------
\* this step is an accepted double-click on the terminal node n
TerminalDoubleClicked(n) ==
  /\ ~isTransitioning /\ ~isWon
  /\ sinceClick < DoubleClickMs
  /\ MeshOf(n).nodeData.type = "terminal"
  /\ OnClick(n)

\* the solve record the double-click consults
SolveRecorded == <<currentFolderId, PUZZLE>> \in puzzlesSolved

\* unsolved: the puzzle opens and navigation state is untouched
OpensPuzzleOnly ==
  /\ terminal' = "open"
  /\ navigationHistory' = navigationHistory
  /\ currentFolderId' = currentFolderId
  /\ isTransitioning' = isTransitioning

\* C10 as stated: an unsolved terminal opens the puzzle and leaves history,
\* current folder and the transition flag alone; a solved terminal starts the
\* transition to its nextFolderId and appends that folder to history without
\* opening the puzzle.
C10_StepAppends ==
  \A n \in raycastTargets :
    TerminalDoubleClicked(n) =>
      IF ~SolveRecorded THEN OpensPuzzleOnly
      ELSE LET next == MeshOf(n).nodeData.nextFolderId
           IN next # NULL =>
                /\ EnterStarted(next)
                /\ navigationHistory' = Append(navigationHistory, next)
                /\ terminal' = terminal

C10_StepEnters ==
  \A n \in raycastTargets :
    TerminalDoubleClicked(n) =>
      IF ~SolveRecorded THEN OpensPuzzleOnly
      ELSE LET next == MeshOf(n).nodeData.nextFolderId
           IN next # NULL =>
                /\ EnterStarted(next)
                /\ terminal' = terminal
                /\ LastOf(navigationHistory') = next
                /\ IF next \in SeqToSet(navigationHistory)
                   THEN /\ Len(navigationHistory') <= Len(navigationHistory)
                        /\ \A k \in 1..Len(navigationHistory') :
                             /\ navigationHistory'[k] = navigationHistory[k]
                             /\ k < Len(navigationHistory') => navigationHistory[k] # next
                   ELSE navigationHistory' = Append(navigationHistory, next)

C11_Step == puzzlesSolved \subseteq puzzlesSolved'

C11_SolvedMapAppendOnly == [][C11_Step]_vars

\* a second solve was recorded and the first one is still there
C11_Witness ==
  /\ g = "vault"
  /\ <<ROOT, PUZZLE>> \in puzzlesSolved
  /\ <<"v", PUZZLE>> \in puzzlesSolved

\* ------------------------------------------------------------------------
\* C12
\* ------------------------------------------------------------------------
\* this step is the last frame of the animateEnter loop of enterFolder(f)
EnterCompleted(f) ==
  /\ enterAnims # << >>
  /\ Len(enterAnims') < Len(enterAnims)
  /\ Head(enterAnims).folderId = f

\* C12: at the moment an enter transition to f completes the machine is idle
\* at its destination: isTransitioning is false, currentFolderId = f, the
\* camera is in folder mode, nothing is selected and f is the last element of
\* navigationHistory.
C12_Step ==
  \A f \in FolderIds :
    EnterCompleted(f) =>
      /\ ~isTransitioning'
      /\ currentFolderId' = f
      /\ cameraMode' = "folder"
      /\ selectedNodeId' = NULL
      /\ LastOf(navigationHistory') = f

C12_EnterEndsIdleAtDestination == [][C12_Step]_vars

\* ------------------------------------------------------------------------
\* C13
\* ------------------------------------------------------------------------
\* doubled x interval of the platform of folder id
LeftEdge2(id) == platformMeshes[id].branchOffset2 - platformMeshes[id].width
RightEdge2(id) == platformMeshes[id].branchOffset2 + platformMeshes[id].width

\* C13: the x intervals of two distinct folders of the same depth never
\* intersect, and consecutive folders of a depth are exactly the edge gap
\* apart, edge to edge.
C13_NoOverlap ==
  booted =>
    /\ \A a, b \in FolderIds :
         (a # b /\ FolderOf(a).depth = FolderOf(b).depth) =>
           RightEdge2(a) < LeftEdge2(b) \/ RightEdge2(b) < LeftEdge2(a)
    /\ \A i \in 1..Len(FOLDER_GRAPH) :
         LET folders == DepthFolders(FOLDER_GRAPH[i].depth)
         IN \A k \in 1..(Len(folders) - 1) :
              LeftEdge2(folders[k + 1].id) - RightEdge2(folders[k].id)
                = 2 * EdgeGap * LayoutUnit

\* three folders of one depth with 5, 0 and 2 nodes have been laid out
C13_Witness ==
  /\ booted
  /\ g = "layout"
  /\ shape = << <<1, 5>>, <<1, 0>>, <<1, 2>> >>

\* ------------------------------------------------------------------------
\* C14
\* ------------------------------------------------------------------------
\* C14: a folder with zero nodes gets a platform with a 1 x 1 grid and a
\* well-defined positive width and depth.
C14_EmptyFolderPlatform ==
  booted =>
    \A id \in FolderIds :
      Len(FolderOf(id).nodes) = 0 =>
        /\ platformMeshes[id].cols = 1
        /\ platformMeshes[id].rows = Num(1)
        /\ platformMeshes[id].width > 0
        /\ ~platformMeshes[id].depth.nan
        /\ platformMeshes[id].depth.v > 0

\* ------------------------------------------------------------------------
\* C15
\* ------------------------------------------------------------------------
\* C15: a dangling nextFolderId is tolerated: navigationHistory holds only ids
\* of folders of the graph, and the machine is never left in Transitioning
\* with no timed effect pending that would end it.
C15_DanglingTolerated ==
  /\ SeqToSet(navigationHistory) \subseteq FolderIds
  /\ isTransitioning => (enterAnims # << >> \/ backTimers # << >> \/ lockoutTimers # << >>)

\* ------------------------------------------------------------------------
\* C16
\* ------------------------------------------------------------------------
\* this step is an accepted double-click on an enterable node that leads to
\* the current folder
CurrentFolderDoubleClicked(n) ==
  /\ ~isTransitioning /\ ~isWon
  /\ sinceClick < DoubleClickMs
  /\ MeshOf(n).nodeData.type \notin {"lore", "clue", "terminal"}
  /\ MeshOf(n).nodeData.enterable
  /\ MeshOf(n).nodeData.nextFolderId = currentFolderId
  /\ OnClick(n)

\* this step is a breadcrumb click on the item of the current folder
CurrentFolderBreadcrumbClicked(i) ==
  /\ ~isTransitioning /\ ~isWon
  /\ navigationHistory[i + 1] = currentFolderId
  /\ NavigateToHistoryIndex(i)

\* the request was ignored
NavigationIgnored ==
  /\ ~isTransitioning'
  /\ navigationHistory' = navigationHistory
  /\ currentFolderId' = currentFolderId
  /\ targetLookAt' = targetLookAt
  /\ targetDistance' = targetDistance
  /\ targetHeight' = targetHeight

\* C16: a navigation request whose destination is the current folder, by
\* breadcrumb or by double-click, is ignored: isTransitioning stays false and
\* history, current folder and camera targets are unchanged.
C16_Step ==
  /\ \A n \in raycastTargets : CurrentFolderDoubleClicked(n) => NavigationIgnored
  /\ \A i \in 0..(Len(navigationHistory) - 1) :
       CurrentFolderBreadcrumbClicked(i) => NavigationIgnored

C16_NavigationToCurrentIsNoOp == [][C16_Step]_vars

\* x lies in the closed interval between a and b
Between(x, a, b) == Min(a, b) <= x /\ x <= Max(a, b)

\* the distance that is left to the target
Gap(current, target) ==
  IF target * SmoothUnit >= current THEN target * SmoothUnit - current
  ELSE current - target * SmoothUnit

\* the smoothed quantities with their targets
Smoothed ==
  << <<currentLookAt[1], TargetPoint[1]>>, <<currentLookAt[2], TargetPoint[2]>>,
     <<currentLookAt[3], TargetPoint[3]>>, <<currentDistance, targetDistance>>,
     <<currentHeight, targetHeight>> >>

\* this step is a frame of animate() with dt > 0 that moved the camera
FrameStep == booted /\ smoothVars' # smoothVars

C17_Step ==
  FrameStep =>
    LET before == Smoothed
        after == << currentLookAt'[1], currentLookAt'[2], currentLookAt'[3],
                    currentDistance', currentHeight' >>
    IN /\ UNCHANGED <<targetLookAt, targetDistance, targetHeight>>
       /\ \E num \in FrameBlends :
            \A k \in 1..Len(before) :
              LET target == before[k][2]
                  left == Gap(before[k][1], target)
                  left2 == Gap(after[k], target)
              IN /\ Between(after[k], before[k][1], target * SmoothUnit)
                 /\ left2 * BlendDen = left * (BlendDen - num)
                 /\ left > 0 => left2 < left

TargetsWithin(mode) ==
  /\ Band(mode).minDistance <= targetDistance
  /\ targetDistance <= Band(mode).maxDistance
  /\ Band(mode).minHeight <= targetHeight
  /\ targetHeight <= Band(mode).maxHeight

\* no enter transition is in progress
OutsideTransition == booted /\ ~isTransitioning /\ enterAnims = << >>

\* C18: outside an enter transition the camera targets stay within the
\* bounds of the active mode: targetDistance in [minDistance, maxDistance]
\* and targetHeight in [minHeight, maxHeight] of cameraMode, after node
\* selection, deselection by click or by zoom, and folder entry.
C18_TargetsWithinActiveBand == OutsideTransition => TargetsWithin(cameraMode)

\* ------------------------------------------------------------------------
\* C19
\* ------------------------------------------------------------------------
\* C19: whenever cameraMode = 'folder' and no enter transition is in
\* progress, targetLookAt is the centre of the current folder's platform,
\* also after a node was deselected by a click on empty space or by zooming
\* out past the threshold.  (A node mesh lies above the platform, so its
\* position is never the platform centre.)
C19_FolderModeLooksAtPlatformCentre ==
  (OutsideTransition /\ cameraMode = "folder") => targetLookAt = currentFolderId

\* ------------------------------------------------------------------------
\* C20
\* ------------------------------------------------------------------------
\* a node is selected in node mode and input is accepted
NodeSelected ==
  booted /\ ~isTransitioning /\ ~isWon /\ cameraMode = "node" /\ selectedNodeId # NULL

\* the wheel event brings the deselection nearer: it deselects the node or
\* leaves a larger target distance behind
ZoomOutAdvances(delta) ==
  /\ OnWheel(delta)
  /\ \/ selectedNodeId' = NULL /\ cameraMode' = "folder"
     \/ targetDistance' > targetDistance

\* C20: zoom-out in node mode accumulates towards deselection: while a
\* node is selected every wheel event with a positive delta, however small,
\* either deselects the node (selectedNodeId = null, cameraMode 'folder') or
\* leaves the target distance larger than before, so that any sequence of
\* such events ends in the deselection.
C20_ZoomOutAccumulates ==
  NodeSelected =>
    \A delta \in {d \in WheelDeltas : d > 0} : ENABLED ZoomOutAdvances(delta)

\* ------------------------------------------------------------------------
\* C21
\* ------------------------------------------------------------------------
\* the clamp bands of a CAMERA_CONFIG definition are non-empty, the select
\* distance lies in the node band and the threshold lies above it
WellFormed(config) ==
  /\ config.folder.minDistance <= config.folder.maxDistance
  /\ config.node.minDistance <= config.node.maxDistance
  /\ config.folder.minHeight <= config.folder.maxHeight
  /\ config.node.minHeight <= config.node.maxHeight
  /\ config.node.minDistance <= config.node.selectDistance
  /\ config.node.selectDistance <= config.node.maxDistance
  /\ config.deselectThreshold > config.node.maxDistance

\* C21: in every CAMERA_CONFIG definition of camera-config.js each mode's
\* clamp band is non-empty (minDistance <= maxDistance, minHeight <=
\* maxHeight), node.selectDistance lies in the node band and
\* deselectThreshold is strictly greater than node.maxDistance.
C21_ConfigWellFormed == WellFormed(CAMERA_CONFIG(cfg))

\* ------------------------------------------------------------------------
\* C22
\* ------------------------------------------------------------------------
\* this step called setCameraToFolder: through showCurrentFolder or at the
\* start of enterFolder
SetCameraToFolderRan ==
  ShowCurrentFolderRan \/ \E f \in FolderIds : EnterStarted(f)

\* C22: the first call of setCameraToFolder sets targetDistance and
\* targetHeight to folder.initialDistance / initialHeight; isInitialLoad then
\* becomes false and never becomes true again, and every later call sets
\* them to folder.maxDistance / maxHeight.
C22_Step ==
  /\ isInitialLoad' => isInitialLoad
  /\ SetCameraToFolderRan =>
       /\ ~isInitialLoad'
       /\ targetDistance' = IF isInitialLoad THEN CAMERA_CONFIG(cfg).folder.initialDistance
                            ELSE CAMERA_CONFIG(cfg).folder.maxDistance
       /\ targetHeight' = IF isInitialLoad THEN CAMERA_CONFIG(cfg).folder.initialHeight
                          ELSE CAMERA_CONFIG(cfg).folder.maxHeight

C22_InitialLoadOnlyOnce == [][C22_Step]_vars

\* a later folder visit has set the steady-state distance
C22_Witness ==
  /\ ~isInitialLoad
  /\ enterAnims # << >>
  /\ CAMERA_CONFIG(cfg).folder.maxDistance # CAMERA_CONFIG(cfg).folder.initialDistance
  /\ targetDistance = CAMERA_CONFIG(cfg).folder.maxDistance

\* ------------------------------------------------------------------------
\* C23
\* ------------------------------------------------------------------------
\* the absolute value
Abs(x) == IF x < 0 THEN 0 - x ELSE x

\* C23: in every reachable state cameraYaw is within [-0.5, 0.5] and
\* cameraPitch within [-0.3, 0.3], for any sequence of right-drag pointer
\* deltas and of frame time-deltas, while looking and while recentring.
C23_YawPitchBounded ==
  /\ Abs(cameraYaw) <= YawLimit * SmoothUnit
  /\ Abs(cameraPitch) <= PitchLimit * SmoothUnit

\* a drag has been released and a frame has recentred part of the way
C23_Witness ==
  /\ ~isLooking
  /\ cameraYaw % SmoothUnit # 0
  /\ cameraPitch # 0

\* ------------------------------------------------------------------------
\* C24
\* ------------------------------------------------------------------------
\* this step is a frame that recentred yaw or pitch
RecentreStep ==
  /\ ~isLooking /\ ~isLooking'
  /\ <<cameraYaw', cameraPitch'>> # <<cameraYaw, cameraPitch>>

\* after lies between 0 and before: the factor after / before is in [0,1]
Decayed(before, after) == Between(after, 0, before)

\* C24: when isLooking is false each updateCameraSmooth step multiplies
\* cameraYaw and cameraPitch by a factor in [0,1], so that they approach
\* zero without ever changing sign, for every dt >= 0 including long frames.
C24_Step ==
  RecentreStep => Decayed(cameraYaw, cameraYaw') /\ Decayed(cameraPitch, cameraPitch')

C24_RecentreNeverOvershoots == [][C24_Step]_vars

\* ------------------------------------------------------------------------
\* C25
\* ------------------------------------------------------------------------
\* this step is an accepted double-click on the trap node n
TrapDoubleClicked(n) ==
  /\ ~isTransitioning /\ ~isWon
  /\ sinceClick < DoubleClickMs
  /\ MeshOf(n).nodeData.type = "trap"
  /\ OnClick(n)

\* C25: a double-click on a node of type trap never changes
\* navigationHistory, for every trapEffect and regardless of the node's
\* enterable flag.
C25_Step ==
  \A n \in raycastTargets :
    TrapDoubleClicked(n) => navigationHistory' = navigationHistory

C25_TrapKeepsHistory == [][C25_Step]_vars

\* ------------------------------------------------------------------------
\* C26
\* ------------------------------------------------------------------------
\* this step is an accepted double-click on the non-enterable 'back' trap n
BackTrapTriggered(n) ==
  /\ TrapDoubleClicked(n)
  /\ ~MeshOf(n).nodeData.enterable
  /\ MeshOf(n).nodeData.trapEffect = "back"

\* the folders of depth d, as positions in graph order
AtDepth(d) == {i \in 1..Len(FOLDER_GRAPH) : FOLDER_GRAPH[i].depth = d}

\* folders that only the 'back' trap leads to: no edge enters them and they
\* are not the start folder
TrapOnlyFolders ==
  {f \in FolderIds : f # ROOT /\ \A a \in FolderIds : ~HasEdge(a, f)}

\* the trap is armed: a timeout of BackTrapDelay for the first folder of
\* depth d - 1 in graph order, where d is the depth of the current folder
BackTrapArmed ==
  LET d == FolderOf(currentFolderId).depth
      timer == backTimers'[Len(backTimers')]
  IN /\ Len(backTimers') = Len(backTimers) + 1
     /\ timer.remaining = BackTrapDelay
     /\ \E i \in AtDepth(d - 1) :
          /\ FOLDER_GRAPH[i].id = timer.folderId
          /\ \A j \in AtDepth(d - 1) : i <= j

\* C26: a 'back' trap triggered in a folder of depth d arms a delayed
\* transition to the first folder of depth d - 1 in graph order, or changes
\* nothing when there is none; after the delay that transition is started;
\* and when it completes the current folder is exactly one depth level
\* shallower than the folder that is current at that time.  (The last part
\* is stated for the folders that only the trap leads to.)
C26_Step ==
  /\ \A n \in raycastTargets :
       BackTrapTriggered(n) =>
         IF AtDepth(FolderOf(currentFolderId).depth - 1) # {}
         THEN BackTrapArmed /\ UNCHANGED <<navVars, enterAnims>>
         ELSE UNCHANGED <<navVars, puzzleVars, camVars, viewVars, timerVars>>
  /\ Len(backTimers') < Len(backTimers) => EnterStarted(Head(backTimers).folderId)
  /\ \A f \in TrapOnlyFolders :
       EnterCompleted(f) =>
         /\ currentFolderId' = f
         /\ FolderOf(f).depth = FolderOf(currentFolderId).depth - 1

C26_BackTrapGoesOneLevelUp == [][C26_Step]_vars

\* ------------------------------------------------------------------------
\* C27
\* ------------------------------------------------------------------------
\* a lockout period or an enter transition is in progress
TimedEffectRunning == lockoutTimers # << >> \/ enterAnims # << >>

\* C27: isTransitioning is true at every instant at which a lockout period
\* or an enter transition is in progress: the end of one timed effect never
\* re-enables input while the other is still running.
C27_FlagCoversTimedEffects == TimedEffectRunning => isTransitioning

\* ------------------------------------------------------------------------
\* C28
\* ------------------------------------------------------------------------
\* the navigation state of the claim
navigationState == <<navigationHistory, currentFolderId, isTransitioning, isWon,
                     puzzlesSolved>>

\* this step is an accepted single click on the hit target n
SingleClicked(n) ==
  /\ ~isTransitioning /\ ~isWon
  /\ sinceClick >= DoubleClickMs
  /\ OnClick(n)

\* this step is an accepted double-click on the hit target n
DoubleClicked(n) ==
  /\ ~isTransitioning /\ ~isWon
  /\ sinceClick < DoubleClickMs
  /\ OnClick(n)

\* lore and clue nodes, and redHerring, plain and 'scramble' trap nodes
PassiveType(node) ==
  \/ node.type \in {"lore", "clue", "redHerring", "plain"}
  \/ node.type = "trap" /\ node.trapEffect = "scramble"

\* handleNodeDoubleClick tests node.enterable before the types trap and
\* redHerring, and after the types lore and clue
ReachesEnterableTest(node) == node.type \notin {"lore", "clue"} /\ node.enterable

\* this step is part of a look drag (onMouseDown, onMouseMove, onMouseUp) or
\* a frame of animate(): the only handlers that write the look state or,
\* once booted, the smoothed camera values
LookOrFrameStep == booted /\ (lookVars' # lookVars \/ smoothVars' # smoothVars)

\* the inputs of the claim other than the double-click
PlainInput ==
  \/ \E n \in raycastTargets : SingleClicked(n)
  \/ OnClick(NULL)
  \/ Wheel
  \/ LookOrFrameStep

\* C28 as stated: a single click selecting a node, a click on empty space,
\* a wheel zoom, a look drag, a per-frame camera advance, and a double-click
\* on a lore, clue, redHerring, plain or 'scramble' trap node all leave
\* navigationHistory, currentFolderId, isTransitioning, isWon and
\* puzzlesSolved unchanged.
C28_StepAsStated ==
  /\ PlainInput => UNCHANGED navigationState
  /\ \A n \in raycastTargets :
       DoubleClicked(n) /\ PassiveType(MeshOf(n).nodeData)
         => UNCHANGED navigationState

C28_Step ==
  /\ PlainInput => UNCHANGED navigationState
  /\ \A n \in raycastTargets :
       /\ DoubleClicked(n)
       /\ PassiveType(MeshOf(n).nodeData)
       /\ ~ReachesEnterableTest(MeshOf(n).nodeData)
       => UNCHANGED navigationState

nodeZoomDistance == CAMERA_CONFIG(cfg).node.selectDistance

\* C29: when input is accepted, a single click over the hit target of node
\* n yields selectedNodeId = n, cameraMode = 'node', targetLookAt = the
\* position of n's mesh and targetDistance = node.selectDistance; a click
\* that hits no target yields selectedNodeId = null and cameraMode =
\* 'folder'; while isTransitioning or isWon is true a click changes neither
\* selection nor camera mode.
C29_Step ==
  /\ \A n \in raycastTargets :
       SingleClicked(n) =>
         /\ selectedNodeId' = n
         /\ cameraMode' = "node"
         /\ targetLookAt' = n
         /\ targetDistance' = nodeZoomDistance
  /\ ~isTransitioning /\ ~isWon /\ OnClick(NULL) =>
         /\ selectedNodeId' = NULL
         /\ cameraMode' = "folder"
  /\ (isTransitioning \/ isWon) /\ Click => UNCHANGED <<selectedNodeId, cameraMode>>

C29_SelectionTransitions == [][C29_Step]_vars

\* a node was selected by the click just made, away from the distance the
\* folder view had
C29_Witness ==
  /\ sinceClick = 0
  /\ selectedNodeId # NULL
  /\ cameraMode = "node"
  /\ targetLookAt = selectedNodeId
  /\ targetDistance = nodeZoomDistance
  /\ lastFolderDistance # nodeZoomDistance

\* ------------------------------------------------------------------------
\* C30
\* ------------------------------------------------------------------------
\* navigateToHistoryIndex(i) is accepted: not transitioning, not won,
\* history[i] exists and differs from the current folder
JumpAccepted(i) ==
  /\ ~isTransitioning /\ ~isWon
  /\ i < Len(navigationHistory)
  /\ navigationHistory[i + 1] # currentFolderId

\* C30: navigateToHistoryIndex(i), when accepted, leaves navigationHistory
\* equal to the old history[0..i] and starts the transition to the old
\* history[i]; when that transition completes currentFolderId is that
\* folder.  When rejected it changes nothing.
C30_Step ==
  /\ \A i \in 0..(breadcrumbLen - 2) :
       NavigateToHistoryIndex(i) =>
         IF JumpAccepted(i)
         THEN /\ navigationHistory' = SubSeq(navigationHistory, 1, i + 1)
              /\ EnterStarted(navigationHistory[i + 1])
              /\ isTransitioning'
              /\ currentFolderId' = currentFolderId
         ELSE UNCHANGED vars
  /\ \A f \in FolderIds : EnterCompleted(f) => currentFolderId' = f

C30_BreadcrumbJump == [][C30_Step]_vars

\* a jump to a breadcrumb item other than the first is in flight: history
\* was cut to end with the destination and no longer holds the folder that
\* is still current
C30_Witness ==
  /\ isTransitioning
  /\ Len(navigationHistory) >= 2
  /\ enterAnims # << >>
  /\ enterAnims[Len(enterAnims)].folderId = navigationHistory[Len(navigationHistory)]
  /\ currentFolderId \notin SeqToSet(navigationHistory)
  /\ breadcrumbLen > Len(navigationHistory)

\* ------------------------------------------------------------------------
\* C31
\* ------------------------------------------------------------------------
\* Inputs of showCurrentFolder: the histories that follow edges from the
\* root without entering a folder twice, the last folder being current
SearchHistories ==
  {h \in UNION {[1..n -> FolderIds] : n \in 1..Cardinality(FolderIds)} :
     /\ h[1] = ROOT
     /\ \A i \in 1..(Len(h) - 1) : HasEdge(h[i], h[i + 1])
     /\ \A i, j \in 1..Len(h) : h[i] = h[j] => i = j}

InitSearch ==
  /\ \E s \in SearchScenarios : g = s[1] /\ cfg = s[2]
  /\ shape = << >>
  /\ platformMeshes = buildAllPlatforms
  /\ shuffleDraws = [i \in 1..Len(FOLDER_GRAPH) |-> NoSwapDraws(Len(FOLDER_GRAPH[i].nodes))]
  /\ nodePositions = createAllNodes(shuffleDraws)
  /\ booted = TRUE
  /\ navigationHistory \in SearchHistories
  /\ currentFolderId = navigationHistory[Len(navigationHistory)]
  /\ selectedNodeId = NULL
  /\ isTransitioning = FALSE
  /\ isWon = FALSE
  /\ puzzlesSolved = {}
  /\ currentPuzzleId = NULL
  /\ currentTerminalNextFolder = NULL
  /\ terminal = "closed"
  /\ cameraMode = "folder"
  /\ targetLookAt = ROOT
  /\ targetDistance = CAMERA_CONFIG(cfg).folder.initialDistance
  /\ targetHeight = CAMERA_CONFIG(cfg).folder.initialHeight
  /\ isInitialLoad = FALSE
  /\ lastFolderDistance = CAMERA_CONFIG(cfg).folder.maxDistance
  /\ currentLookAt = << 0, 0, 0 >>
  /\ currentDistance = CAMERA_CONFIG(cfg).folder.initialDistance * SmoothUnit
  /\ currentHeight = CAMERA_CONFIG(cfg).folder.initialHeight * SmoothUnit
  /\ cameraYaw = 0
  /\ cameraPitch = 0
  /\ isLooking = FALSE
  /\ lookDrags = << >>
  /\ foldersToShow = ComputeFoldersToShow(<<ROOT>>)
  /\ meshVisible = {m.nodeId : m \in {x \in nodeMeshes : x.folderId \in foldersToShow}}
  /\ raycastTargets = meshVisible
  /\ breadcrumbLen = 1
  /\ sinceClick = DoubleClickMs
  /\ enterAnims = << >>
  /\ backTimers = << >>
  /\ lockoutTimers = << >>
  /\ SearchIdle
  /\ lastClickHit = "none"

NextSearch == SearchBegin \/ SearchShift \/ SearchVisit \/ SearchNext \/ SearchEnd

\* the loop is synchronous code: once entered it keeps running
SpecSearch == InitSearch /\ [][NextSearch]_vars /\ WF_vars(NextSearch)

\* this step pushes an id onto the queue
Enqueued(x) ==
  /\ Len(queue') > Len(queue)
  /\ \E i \in (Len(queue) + 1)..Len(queue') : queue'[i] = x

\* a step of the search: an id is pushed only if it was not yet in the
\* visited set, which then holds it for good; the graph and
\* navigationHistory stay as they are
SearchStepSound ==
  /\ \A x \in FolderIds \cup visited' : Enqueued(x) => x \notin visited /\ x \in visited'
  /\ visited \subseteq visited'
  /\ UNCHANGED <<g, shape, navigationHistory>>

\* no id is twice in the queue, and what is in the queue is in the visited set
QueueDistinct ==
  /\ \A i, j \in 1..Len(queue) : queue[i] = queue[j] => i = j
  /\ SeqToSet(queue) \subseteq visited

\* the search is over with the result of the loop taken as a whole
SearchDone ==
  /\ searchPhase = "done"
  /\ foldersToShow = ComputeFoldersToShow(navigationHistory)

\* C31: the breadth-first search of showCurrentFolder terminates on graphs
\* with cycles, self-loops, several incoming edges and dangling
\* nextFolderId values; each folder id is enqueued at most once; and the
\* search leaves FOLDER_GRAPH and navigationHistory unchanged.
C31_SearchTerminates ==
  /\ []QueueDistinct
  /\ [][SearchStepSound]_vars
  /\ <>SearchDone

\* the search is over on the knot graph and reached the missing folder,
\* which two nodes name
C31_Witness ==
  /\ g = "knot"
  /\ searchPhase = "done"
  /\ "gone" \in foldersToShow
  /\ Len(navigationHistory) > 1

\* ------------------------------------------------------------------------
\* C32
\* ------------------------------------------------------------------------
NextGrid == Boot

SpecGrid == InitGrid /\ [][NextGrid]_vars

\* the placed meshes of folder id are its nodes, each once
IsPermutation(id) ==
  LET placed == nodePositions[id]
      nodes == FolderOf(id).nodes
  IN /\ Len(placed) = Len(nodes)
     /\ {placed[k].nodeId : k \in 1..Len(placed)} = {nodes[k].id : k \in 1..Len(nodes)}

\* the grid of folder id: cols * rows cells of the scaled node size, the
\* scaled gap between them; doubled edges in units of 1/LayoutUnit
GridEdges2(id) ==
  LET folder == FolderOf(id)
      placed == nodePositions[id]
      halfW2 == NodeW * Scale(folder.depth)
      halfD2 == NodeD * Scale(folder.depth)
      xs == {placed[k].x2 : k \in 1..Len(placed)}
      zs == {placed[k].z2 : k \in 1..Len(placed)}
  IN [left |-> (CHOOSE x \in xs : \A y \in xs : x <= y) - halfW2,
      right |-> (CHOOSE x \in xs : \A y \in xs : x >= y) + halfW2,
      back |-> (CHOOSE z \in zs : \A y \in zs : z <= y) - halfD2,
      front |-> (CHOOSE z \in zs : \A y \in zs : z >= y) + halfD2]

\* the footprint of the platform of folder id, doubled edges
Footprint2(id) ==
  LET userData == platformMeshes[id]
      zPos2 == 2 * (StartZ - FolderOf(id).depth * DepthStep) * LayoutUnit
  IN [left |-> userData.branchOffset2 - userData.width,
      right |-> userData.branchOffset2 + userData.width,
      back |-> zPos2 - userData.depth.v,
      front |-> zPos2 + userData.depth.v]

\* C32: for a folder with n >= 1 nodes, cols = ceil(sqrt(n)) and rows =
\* ceil(n / cols) give cols * rows >= n; the placed order is a permutation
\* of the folder's nodes; the node at index i sits in cell (i mod cols,
\* floor(i / cols)) with row < rows, no two nodes in one cell; and the grid
\* is centred on the platform footprint and lies within it.
C32_NodeGrid ==
  booted =>
    \A id \in FolderIds :
      LET n == Len(FolderOf(id).nodes)
          cols == platformMeshes[id].cols
          rows == platformMeshes[id].rows
          placed == nodePositions[id]
          grid == GridEdges2(id)
          foot == Footprint2(id)
      IN n >= 1 =>
           /\ cols * cols >= n /\ (cols - 1) * (cols - 1) < n
           /\ ~rows.nan
           /\ rows.v * cols >= n /\ (rows.v - 1) * cols < n
           /\ IsPermutation(id)
           /\ \A k \in 1..n :
                /\ placed[k].col = (k - 1) % cols
                /\ placed[k].row = (k - 1) \div cols
                /\ placed[k].row < rows.v
           /\ \A k, m \in 1..n :
                <<placed[k].col, placed[k].row>> = <<placed[m].col, placed[m].row>>
                  => k = m
           /\ \A k, m \in 1..n :
                <<placed[k].x2, placed[k].z2>> = <<placed[m].x2, placed[m].z2>> => k = m
           /\ grid.left + grid.right = foot.left + foot.right
           /\ grid.back + grid.front = foot.back + foot.front
           /\ foot.left < grid.left /\ grid.right < foot.right
           /\ foot.back < grid.back /\ grid.front < foot.front

\* a folder beside another one was filled with three nodes in an order other
\* than the graph's: the last row of its grid is not full
C32_Witness ==
  /\ booted
  /\ g = "grid"
  /\ \E id \in FolderIds :
       /\ Len(FolderOf(id).nodes) = 3
       /\ platformMeshes[id].branchOffset2 # 0
       /\ nodePositions[id][1].nodeId # FolderOf(id).nodes[1].id
       /\ nodePositions[id][3].row = 1

\* ------------------------------------------------------------------------
\* C33
\* ------------------------------------------------------------------------
\* the folders of depth d
TierOf(d) == {id \in FolderIds : FolderOf(id).depth = d}

\* C33: for every depth level, the left edge of the leftmost platform and
\* the right edge of the rightmost platform are symmetric about x = 0.
C33_TierCentred ==
  booted =>
    \A i \in 1..Len(FOLDER_GRAPH) :
      LET tier == TierOf(FOLDER_GRAPH[i].depth)
          leftmost == CHOOSE a \in tier : \A b \in tier : LeftEdge2(a) <= LeftEdge2(b)
          rightmost == CHOOSE a \in tier : \A b \in tier : RightEdge2(a) >= RightEdge2(b)
      IN LeftEdge2(leftmost) + RightEdge2(rightmost) = 0

\* three siblings of unequal widths were laid out below a single root: the
\* middle platform is off centre
C33_Witness ==
  /\ booted
  /\ g = "layout"
  /\ shape = << <<1, 1>>, <<1, 5>>, <<1, 2>> >>
  /\ platformMeshes["f2"].branchOffset2 # 0

\* ------------------------------------------------------------------------
\* C34
\* ------------------------------------------------------------------------
\* navigationHistory is non-empty, starts at the root and holds no id twice
HistoryDistinctFromRoot ==
  /\ navigationHistory # << >>
  /\ navigationHistory[1] = ROOT
  /\ \A i, j \in 1..Len(navigationHistory) :
       navigationHistory[i] = navigationHistory[j] => i = j

\* C34: in every reachable state navigationHistory is non-empty, its first
\* element is the root folder, it contains no folder id twice, and its
\* length does not exceed the number of distinct folder ids.
C34_HistoryBounded ==
  /\ HistoryDistinctFromRoot
  /\ Len(navigationHistory) <= Cardinality(FolderIds)

\* ------------------------------------------------------------------------
\* C35
\* ------------------------------------------------------------------------
\* input is accepted by onClick, onWheel and navigateToHistoryIndex
InputAccepted == ~isTransitioning /\ ~isWon

\* node mode is never without a selected node
NodeModeHasSelection == cameraMode = "node" => selectedNodeId # NULL

\* C35: in every reachable state cameraMode = 'node' implies that a node is
\* selected, and in every state in which input is accepted a selected node
\* implies cameraMode = 'node'.
C35_ModeMatchesSelection ==
  /\ NodeModeHasSelection
  /\ InputAccepted /\ selectedNodeId # NULL => cameraMode = "node"

\* ------------------------------------------------------------------------
\* C36
\* ------------------------------------------------------------------------
ClickScenarios == {<<"trap", 1>>}

InitClicks == InitIn(ClickScenarios)

\* onClick(event), observed: lastClickHit records the node the click landed
\* on while input was accepted, NULL for empty space, "swallowed" for a
\* click made while isTransitioning or isWon
LoggedClick ==
  \E target \in raycastTargets \cup {NULL} :
    /\ OnClick(target)
    /\ lastClickHit' = IF isTransitioning \/ isWon THEN "swallowed" ELSE target

NextClicks == Boot \/ LoggedClick \/ AnimateEnterDone \/ BackTimerFire \/ Tick

SpecClicks == InitClicks /\ [][NextClicks]_vars

\* C36: handleNodeDoubleClick(n) is dispatched only when the previous
\* click, less than 300 ms earlier, also landed on n while input was
\* accepted; a click on n that follows within 300 ms a click on a different
\* node, on empty space or a swallowed click is a single click on n.
C36_Step ==
  \A n \in raycastTargets :
    /\ DoubleClicked(n) => lastClickHit = n
    /\ InputAccepted /\ OnClick(n) /\ sinceClick < DoubleClickMs /\ lastClickHit # n
         => selectedNodeId' = n /\ cameraMode' = "node"

C36_DoubleClickNeedsSameNode == [][C36_Step]_vars

\* ------------------------------------------------------------------------
\* C37
\* ------------------------------------------------------------------------
\* the folders that own a terminal node leading to folder next
TerminalOwners(next) ==
  {m.folderId : m \in {x \in nodeMeshes : /\ x.nodeData.type = "terminal"
                                          /\ x.nodeData.nextFolderId = next}}

\* C37: a terminal node is entered without opening the puzzle only if a
\* solve is recorded for the folder that owns that node; and the record
\* unlockPuzzle makes is keyed by the folder that owns the terminal whose
\* puzzle was solved.
C37_Step ==
  /\ \A n \in raycastTargets :
       TerminalDoubleClicked(n) /\ (\E f \in FolderIds : EnterStarted(f))
         => <<MeshOf(n).folderId, getPuzzleId(MeshOf(n).nodeData)>> \in puzzlesSolved
  /\ \A e \in puzzlesSolved' \ puzzlesSolved :
       e[1] \in TerminalOwners(currentTerminalNextFolder)

C37_SolveKeyedByOwner == [][C37_Step]_vars

\* ------------------------------------------------------------------------
\* C38
\* ------------------------------------------------------------------------
\* every folder of FOLDER_GRAPH can be reached from the root along
\* nextFolderId edges
AllFoldersReachable == FolderIds \subseteq ReachableFrom({ROOT})

\* the ids a node of some folder in S names as its nextFolderId
NamedBy(S) ==
  {m.nodeData.nextFolderId :
     m \in {x \in nodeMeshes : x.folderId \in S /\ x.nodeData.nextFolderId # NULL}}

\* the root plus everything reachable from it, the ids that name no folder
\* included
RootClosure == ReachableFrom({ROOT}) \cup NamedBy(ReachableFrom({ROOT}))

\* C38: when every folder of the graph is reachable from the root, every run
\* of showCurrentFolder (init and the end of every transition) computes the
\* root plus everything reachable from it, and the computed set is that same
\* set in every state of the session, wherever the history has been cut.
C38_Step ==
  /\ booted /\ AllFoldersReachable => foldersToShow = RootClosure
  /\ ShowCurrentFolderRan /\ AllFoldersReachable => foldersToShow' = RootClosure

C38_VisibleSetConstant == [][C38_Step]_vars

\* the session is settled at the root with the history cut back to it after a
\* visit to folder v (a solve was recorded while v was the current folder),
\* and v is in the computed set
C38_Witness ==
  /\ g = "vault"
  /\ AllFoldersReachable
  /\ <<"v", PUZZLE>> \in puzzlesSolved
  /\ navigationHistory = <<ROOT>>
  /\ currentFolderId = ROOT
  /\ enterAnims = << >>
  /\ ~isTransitioning
  /\ "v" \in foldersToShow

====
